---- MODULE Spec2Model ----
(***************************************************************************)
(* A model of GenBank_SBOL3_Converter                                      *)
(* (src/sbol_utilities/sbol3_genbank_conversion.py): the forward converter *)
(* convert_genbank_to_sbol3, the reverse converter                         *)
(* convert_sbol3_to_genbank, their two helpers for the extra GenBank       *)
(* properties and the loader of the two ontology tables.                   *)
(*                                                                         *)
(* Text that the code slices, joins, sorts or re-cases is a tuple of       *)
(* one-character strings; text that the code only copies is a TLA+ string. *)
(* A Python value that may be None is None == <<>> or Some(v) == <<v>>.    *)
(***************************************************************************)
EXTENDS Integers, Sequences, FiniteSets, TLC

VARIABLES
    gb2so_map,   \* the class-level dict GenBank term -> SO term
    so2gb_map,   \* the class-level dict SO term -> GenBank term
    gb2so_csv,   \* the file gb2so.csv: None when missing, else its rows
    so2gb_csv,   \* the file so2gb.csv: None when missing, else its rows
    records,     \* the parsed records of the last forward conversion
    fwd,         \* the outcome of the last forward conversion
    sbol3_file,  \* the file the last forward conversion wrote
    doc,         \* the document the caller holds or the converter read
    rev,         \* the outcome of the last reverse conversion
    mapped       \* the last call of create_GB_SO_role_mappings by a caller

vars == <<gb2so_map, so2gb_map, gb2so_csv, so2gb_csv, records, fwd, sbol3_file, doc, rev,
          mapped>>

----------------------------------------------------------------------------
(* Bounds of the model. *)

\* largest coordinate of a location part
MaxCoord == 2
\* largest number of qualifiers beside the label of a generated feature
MaxQualifiers == 2
\* longest list of which every stored order is read back
MaxShuffle == 2

----------------------------------------------------------------------------
(* Python values. *)

None == <<>>

Some(v) == <<v>>

IsNone(o) == o = <<>>

Val(o) == o[1]

\* Python truthiness of an optional text: None and "" are falsy
TruthyText(o) == o # None /\ Val(o) # ""

\* the same for a text kept as a tuple of characters
TruthyChars(o) == o # None /\ Val(o) # <<>>

Range(s) == {s[i] : i \in DOMAIN s}

RECURSIVE Flatten(_)
Flatten(ss) ==
    IF ss = <<>> THEN <<>> ELSE Head(ss) \o Flatten(Tail(ss))

\* the characters of the model in code-point order
Alphabet ==
    <<",", "-", ".", "/", "0", "1", "2", "3", "4", "5", "6", "7", "8", "9", ":",
      "A", "C", "G", "O", "S", "T", "_",
      "a", "b", "c", "d", "e", "f", "g", "h", "i", "k", "l", "n", "o", "p", "r",
      "s", "t", "x", "y", "z">>

Ord(c) == CHOOSE i \in DOMAIN Alphabet : Alphabet[i] = c

\* str < str of Python: lexicographic by code point
RECURSIVE StrLess(_, _)
StrLess(a, b) ==
    IF b = <<>> THEN FALSE
    ELSE IF a = <<>> THEN TRUE
    ELSE IF Head(a) = Head(b) THEN StrLess(Tail(a), Tail(b))
    ELSE Ord(Head(a)) < Ord(Head(b))

\* tuple < tuple of Python on tuples of integers
RECURSIVE IntsLess(_, _)
IntsLess(a, b) ==
    IF b = <<>> THEN FALSE
    ELSE IF a = <<>> THEN TRUE
    ELSE IF Head(a) = Head(b) THEN IntsLess(Tail(a), Tail(b))
    ELSE Head(a) < Head(b)

\* sorted(list of str): insertion of each element after every element that
\* is not greater than it
RECURSIVE InsertString(_, _)
InsertString(x, s) ==
    IF s = <<>> THEN <<x>>
    ELSE IF StrLess(x, Head(s)) THEN <<x>> \o s
    ELSE <<Head(s)>> \o InsertString(x, Tail(s))

RECURSIVE SortStrings(_)
SortStrings(s) ==
    IF s = <<>> THEN <<>>
    ELSE InsertString(s[Len(s)], SortStrings(SubSeq(s, 1, Len(s) - 1)))

\* list.sort(key=...) / sorted(..., key=...) on items [key |-> tuple of
\* integers, val |-> element]: stable, equal keys keep their order
RECURSIVE InsertKeyed(_, _)
InsertKeyed(x, s) ==
    IF s = <<>> THEN <<x>>
    ELSE IF IntsLess(x.key, Head(s).key) THEN <<x>> \o s
    ELSE <<Head(s)>> \o InsertKeyed(x, Tail(s))

RECURSIVE SortKeyed(_)
SortKeyed(s) ==
    IF s = <<>> THEN <<>>
    ELSE InsertKeyed(s[Len(s)], SortKeyed(SubSeq(s, 1, Len(s) - 1)))

Reverse(s) == [i \in 1..Len(s) |-> s[Len(s) + 1 - i]]

\* list.sort(key=..., reverse=True): stable, equal keys keep their order
SortKeyedDesc(s) == Reverse(SortKeyed(Reverse(s)))

Vals(s) == [i \in 1..Len(s) |-> s[i].val]

\* str.lower / str.upper on the sequence alphabet
LowerChar(c) ==
    CASE c = "A" -> "a" [] c = "C" -> "c" [] c = "G" -> "g" [] c = "T" -> "t"
      [] OTHER -> c

UpperChar(c) ==
    CASE c = "a" -> "A" [] c = "c" -> "C" [] c = "g" -> "G" [] c = "t" -> "T"
      [] OTHER -> c

Lower(s) == [i \in 1..Len(s) |-> LowerChar(s[i])]

Upper(s) == [i \in 1..Len(s) |-> UpperChar(s[i])]

\* str.index(c, from): the 0-based position of the first c at or after
\* position from, or -1 where Python raises ValueError
StrIndex(s, c, from) ==
    IF \E i \in DOMAIN s : i - 1 >= from /\ s[i] = c
    THEN (CHOOSE i \in DOMAIN s :
              /\ i - 1 >= from /\ s[i] = c
              /\ \A j \in DOMAIN s : (j - 1 >= from /\ s[j] = c) => i <= j) - 1
    ELSE -1

\* s[k:] of Python for k >= 0
SliceFrom(s, k) == SubSeq(s, k + 1, Len(s))

\* s[:-k] of Python for k > 0
DropLast(s, k) == SubSeq(s, 1, Len(s) - k)

Digits == <<"0", "1", "2", "3", "4", "5", "6", "7", "8", "9">>

\* f"{n}" for n >= 0
RECURSIVE FormatInt(_)
FormatInt(n) ==
    IF n < 10 THEN <<Digits[n + 1]>>
    ELSE FormatInt(n \div 10) \o <<Digits[(n % 10) + 1]>>

DigitValue(c) == (CHOOSE i \in DOMAIN Digits : Digits[i] = c) - 1

\* int(s) for a string of decimal digits
RECURSIVE ParseInt(_)
ParseInt(s) ==
    IF Len(s) = 1 THEN DigitValue(s[1])
    ELSE 10 * ParseInt(SubSeq(s, 1, Len(s) - 1)) + DigitValue(s[Len(s)])

\* s.split(":", 1): the text before the first ":" and the text after it
SplitHead(s) == SubSeq(s, 1, StrIndex(s, ":", 0))

\* the text after the last ":" of s
SplitRestAtLast(s) ==
    SliceFrom(s, CHOOSE i \in DOMAIN s :
                     s[i] = ":" /\ \A j \in DOMAIN s : j > i => s[j] # ":")

SplitRest(s) == SliceFrom(s, StrIndex(s, ":", 0) + 1)

\* ",".join(parts)
RECURSIVE JoinComma(_)
JoinComma(parts) ==
    IF parts = <<>> THEN <<>>
    ELSE IF Len(parts) = 1 THEN parts[1]
    ELSE parts[1] \o <<",">> \o JoinComma(Tail(parts))

\* s.split(","): "" splits to [""]
RECURSIVE SplitComma(_)
SplitComma(s) ==
    IF StrIndex(s, ",", 0) = -1 THEN <<s>>
    ELSE <<SubSeq(s, 1, StrIndex(s, ",", 0))>>
             \o SplitComma(SliceFrom(s, StrIndex(s, ",", 0) + 1))

----------------------------------------------------------------------------
(* Constants of the converter class and of the sbol3 library it uses. *)

BIO_STRAND_FORWARD == 1

BIO_STRAND_REVERSE == -1

DEFAULT_GB_SEQ_VERSION == 1

DEFAULT_SO_TERM == <<"S", "O", ":", "0", "0", "0", "0", "1", "1", "0">>

DEFAULT_GB_TERM == "misc_feature"

TEST_NAMESPACE == "https://test.sbol3.genbank/"

CUSTOM_REFERENCE_PROPERTY_URI == "http://www.ncbi.nlm.nih.gov/genbank#reference"

COMP_TYPES == <<"SBO_DNA">>

COMP_ROLES == <<"SO_ENGINEERED_REGION">>

SEQUENCE_ENCODING == "IUPAC_DNA_ENCODING"

\* sbol3.SO_NS
SO_NS ==
    <<"h", "t", "t", "p", "s", ":", "/", "/", "i", "d", "e", "n", "t", "i", "f", "i", "e", "r", "s", ".", "o", "r", "g", "/", "S", "O", ":">>

SO_FORWARD == "SO_FORWARD"

SO_REVERSE == "SO_REVERSE"

SO_LINEAR == "SO_LINEAR"

SO_CIRCULAR == "SO_CIRCULAR"

----------------------------------------------------------------------------
(* Dictionaries.  A Python dict whose order the code does not use is a     *)
(* function; record.annotations and feature.qualifiers, which the code     *)
(* enumerates, are tuples of <<key, value>> pairs in insertion order.      *)

EmptyMap == [k \in {} |-> <<>>]

MapSet(m, k, v) == [x \in DOMAIN m \cup {k} |-> IF x = k THEN v ELSE m[x]]

HasKey(d, k) == \E i \in DOMAIN d : d[i][1] = k

Get(d, k) == d[CHOOSE i \in DOMAIN d : d[i][1] = k][2]

Keys(d) == [i \in DOMAIN d |-> d[i][1]]

\* d[k] = v on an insertion-ordered dict: a present key keeps its place
DictSet(d, k, v) ==
    IF HasKey(d, k)
    THEN [i \in DOMAIN d |-> IF d[i][1] = k THEN <<k, v>> ELSE d[i]]
    ELSE Append(d, <<k, v>>)

\* gb2so_map.get(k) is truthy: the key is present with a non-empty term
Gb2SoHit(m, k) == k \in DOMAIN m /\ m[k] # <<>>

\* so2gb_map.get(k) is truthy: the key is present with a non-empty term
So2GbHit(m, k) == k \in DOMAIN m /\ m[k] # ""

----------------------------------------------------------------------------
(* create_GB_SO_role_mappings.  A table file is None when it does not      *)
(* exist, else Some(rows), each row [GenBank_Ontology, SO_Ontology].       *)

\* the gb2so map made of the rows of the table alone, the last row of a term
\* being the one kept
LoadGb2SoAfresh(m, rows) ==
    [k \in {rows[i].GenBank_Ontology : i \in DOMAIN rows} |->
        rows[CHOOSE i \in DOMAIN rows :
                 /\ rows[i].GenBank_Ontology = k
                 /\ \A j \in DOMAIN rows :
                       rows[j].GenBank_Ontology = k => j <= i].SO_Ontology]

RECURSIVE LoadGb2So(_, _)
LoadGb2So(m, rows) ==
    IF rows = <<>> THEN m
    ELSE LoadGb2So(MapSet(m, Head(rows).GenBank_Ontology, Head(rows).SO_Ontology),
                   Tail(rows))

RECURSIVE LoadSo2Gb(_, _)
LoadSo2Gb(m, rows) ==
    IF rows = <<>> THEN m
    ELSE LoadSo2Gb(MapSet(m, Head(rows).SO_Ontology, Head(rows).GenBank_Ontology),
                   Tail(rows))

\* the two maps loaded from the files that exist, a missing file passed over
MappingsOfFilesPresent(gb2so, so2gb, gb_csv, so_csv, convert_gb2so, convert_so2gb) ==
    [ret |-> 1,
     gb2so |-> IF convert_gb2so /\ gb_csv # None
               THEN LoadGb2So(gb2so, Val(gb_csv)) ELSE gb2so,
     so2gb |-> IF convert_so2gb /\ so_csv # None
               THEN LoadSo2Gb(so2gb, Val(so_csv)) ELSE so2gb]

\* the two maps loaded from their files whichever direction is asked for
MappingsOfBothDirections(gb2so, so2gb, gb_csv, so_csv, convert_gb2so, convert_so2gb) ==
    IF gb_csv = None
    THEN [ret |-> 0, gb2so |-> gb2so, so2gb |-> so2gb]
    ELSE IF so_csv = None
    THEN [ret |-> 0, gb2so |-> LoadGb2So(gb2so, Val(gb_csv)), so2gb |-> so2gb]
    ELSE [ret |-> 1, gb2so |-> LoadGb2So(gb2so, Val(gb_csv)),
          so2gb |-> LoadSo2Gb(so2gb, Val(so_csv))]

\* the two class-level maps after the call, and the value it returns
create_GB_SO_role_mappings(gb2so, so2gb, gb_csv, so_csv, convert_gb2so, convert_so2gb) ==
    IF convert_gb2so /\ gb_csv = None
    THEN [ret |-> 0, gb2so |-> gb2so, so2gb |-> so2gb]
    ELSE LET g == IF convert_gb2so THEN LoadGb2So(gb2so, Val(gb_csv)) ELSE gb2so
         IN  IF convert_so2gb /\ so_csv = None
             THEN [ret |-> 0, gb2so |-> g, so2gb |-> so2gb]
             ELSE [ret |-> 1, gb2so |-> g,
                   so2gb |-> IF convert_so2gb THEN LoadSo2Gb(so2gb, Val(so_csv))
                             ELSE so2gb]


----------------------------------------------------------------------------
(* The objects of an SBOL3 document.  An identity or a display_id is the   *)
(* tuple of the texts it is concatenated from, and so is a record's name.  *)
(* A property of at most one value is None while it is unset.              *)

\* sbol3.Cut(sequence, at, orientation): a Cut has no start and no end
Cut(seq, at, orientation) ==
    [kind |-> "Cut", sequence |-> seq, at |-> at, orientation |-> orientation]

\* sbol3.Range(sequence, start, end, orientation)
RangeLoc(seq, start, end, orientation) ==
    [kind |-> "Range", sequence |-> seq, start |-> start, end |-> end,
     orientation |-> orientation]

\* Component_GenBank_Extension(identity, types, roles, description): every
\* extension property starts unset
NewComponent(namespace, name, types, roles, description) ==
    [kind |-> "Component", ext |-> TRUE,
     identity |-> <<namespace>> \o name, display_id |-> name,
     types |-> types, roles |-> roles, description |-> description,
     sequences |-> <<>>, features |-> <<>>,
     genbank_seq_version |-> None, genbank_date |-> None,
     genbank_division |-> None, genbank_locus |-> None,
     genbank_molecule_type |-> None, genbank_organism |-> None,
     genbank_source |-> None, genbank_topology |-> None, genbank_gi |-> None,
     genbank_record_id |-> None, genbank_taxonomy |-> None,
     genbank_keywords |-> <<>>, genbank_accessions |-> <<>>]

\* sbol3.Sequence(identity, elements, encoding)
NewSequence(namespace, name, elements, encoding) ==
    [kind |-> "Sequence",
     identity |-> <<namespace>> \o name \o <<"_sequence">>,
     display_id |-> name \o <<"_sequence">>,
     elements |-> Some(elements), encoding |-> encoding]

\* CustomReferenceProperty(identity = comp.identity + f"/Reference_{ind}")
NewCustomReference(comp, ind) ==
    [kind |-> "CustomTopLevel", type_uri |-> CUSTOM_REFERENCE_PROPERTY_URI,
     identity |-> comp.identity \o <<"/Reference_">> \o FormatInt(ind),
     display_id |-> <<"Reference_">> \o FormatInt(ind),
     authors |-> None, comment |-> None, journal |-> None, consrtm |-> None,
     title |-> None, medline_id |-> None, pubmed_id |-> None,
     component |-> None, location |-> <<>>]

\* Feature_GenBank_Extension(locations, roles, name, orientation)
NewFeature(locations, roles, name, orientation) ==
    [kind |-> "SequenceFeature", ext |-> TRUE, locations |-> locations,
     roles |-> roles, name |-> name, orientation |-> orientation,
     qualifier_key |-> <<>>, qualifier_value |-> <<>>]

----------------------------------------------------------------------------
(* Biopython records.  A feature's location is a FeatureLocation or a      *)
(* CompoundLocation (its parts and the operator that joins them).  The     *)
(* value of a qualifier is the list of its entries in a parsed record and  *)
(* a single text in a record the reverse converter builds.                 *)

FeatureLocation(start, end, strand) ==
    [kind |-> "FeatureLocation", start |-> start, end |-> end, strand |-> strand]

CompoundLocation(parts, operator) ==
    [kind |-> "CompoundLocation", parts |-> parts, operator |-> operator]

\* location.parts: a FeatureLocation is its own single part
Parts(location) ==
    IF location.kind = "CompoundLocation" THEN location.parts ELSE <<location>>

\* SeqFeature(location, type, strand) with its qualifiers
SeqFeature(location, strand, type, qualifiers) ==
    [location |-> location, strand |-> strand, type |-> type,
     qualifiers |-> qualifiers]

\* Reference() with the fields the converters copy
Reference(authors, comment, journal, title, consrtm, medline_id, pubmed_id, location) ==
    [authors |-> authors, comment |-> comment, journal |-> journal,
     title |-> title, consrtm |-> consrtm, medline_id |-> medline_id,
     pubmed_id |-> pubmed_id, location |-> location]

\* SeqRecord(seq, id, name, description) with its annotations and features
SeqRecord(seq, id, name, description, annotations, features) ==
    [seq |-> seq, id |-> id, name |-> name, description |-> description,
     annotations |-> annotations, features |-> features]

----------------------------------------------------------------------------
(* The forward converter.                                                  *)

\* the qualifier key "label"
LABEL == <<"l", "a", "b", "e", "l">>

\* the orientation of a flat strand, forward for the strand +1 alone
OrientationOfPlusOne(strand) ==
    IF strand = Some(1) THEN Some(SO_FORWARD) ELSE Some(SO_REVERSE)

\* the orientation of a flat strand (lines 285-288, 314-316, 579-581)
OrientationOf(strand) ==
    IF strand = Some(-1) THEN Some(SO_REVERSE) ELSE Some(SO_FORWARD)

\* one location part to a Range whatever its start and end
ConvertLocationToRange(seq, gb_loc) ==
    RangeLoc(seq.identity, gb_loc.start, gb_loc.end, OrientationOf(gb_loc.strand))

\* one location part to a Cut or a Range (lines 292-304, 582-585)
ConvertLocation(seq, gb_loc) ==
    IF gb_loc.start = gb_loc.end
    THEN Cut(seq.identity, gb_loc.start, OrientationOf(gb_loc.strand))
    ELSE RangeLoc(seq.identity, gb_loc.start, gb_loc.end,
                  OrientationOf(gb_loc.strand))

ConvertLocations(seq, parts) ==
    [i \in DOMAIN parts |-> ConvertLocation(seq, parts[i])]

\* the role of a feature from the gb2so map, with no term for a type the map
\* does not have
ForwardRoleNoDefault(gb2so, type) ==
    DropLast(SO_NS, 3) \o (IF Gb2SoHit(gb2so, type) THEN gb2so[type] ELSE <<>>)

\* the role of a feature from the gb2so map, or the default (lines 306-313)
ForwardRole(gb2so, type) ==
    DropLast(SO_NS, 3)
        \o (IF Gb2SoHit(gb2so, type) THEN gb2so[type] ELSE DEFAULT_SO_TERM)

\* the index-prefixed keys and values of a feature (lines 325-328)
QualifierKeys(qualifiers) ==
    [i \in DOMAIN qualifiers |-> FormatInt(i - 1) \o <<":">> \o qualifiers[i][1]]

QualifierValues(qualifiers) ==
    [i \in DOMAIN qualifiers |->
        FormatInt(i - 1) \o <<":">> \o qualifiers[i][2][1]]

\* one feature (lines 279-338); the log line and the warning read the
\* "label" qualifier, a KeyError when the feature has none
ConvertFeature(gb2so, seq, gb_feat) ==
    IF ~HasKey(gb_feat.qualifiers, LABEL)
    THEN [err |-> "KeyError: label", feat |-> None]
    ELSE [err |-> "",
          feat |-> Some(
            [NewFeature(ConvertLocations(seq, Parts(Val(gb_feat.location))),
                        <<ForwardRole(gb2so, gb_feat.type)>>,
                        Some(Get(gb_feat.qualifiers, LABEL)[1]),
                        OrientationOf(gb_feat.strand))
             EXCEPT !.qualifier_key = QualifierKeys(gb_feat.qualifiers),
                    !.qualifier_value = QualifierValues(gb_feat.qualifiers)])]

\* the features of a record in order, stopping at the first error
RECURSIVE ConvertFeatures(_, _, _, _)
ConvertFeatures(gb2so, seq, gb_feats, done) ==
    IF gb_feats = <<>> THEN [err |-> "", feats |-> done]
    ELSE LET Continue(r) ==
                 IF r.err # "" THEN [err |-> r.err, feats |-> done]
                 ELSE ConvertFeatures(gb2so, seq, Tail(gb_feats),
                                      Append(done, Val(r.feat)))
         IN  Continue(ConvertFeature(gb2so, seq, Head(gb_feats)))


\* one reference of a record to a CustomReferenceProperty (lines 568-592)
ConvertReference(comp, seq, reference, ind) ==
    [NewCustomReference(comp, ind)
     EXCEPT !.authors = reference.authors,
            !.comment = reference.comment,
            !.journal = reference.journal,
            !.title = reference.title,
            !.consrtm = reference.consrtm,
            !.medline_id = reference.medline_id,
            !.pubmed_id = reference.pubmed_id,
            !.location = ConvertLocations(seq, reference.location),
            !.component = IF comp.display_id # <<>>
                          THEN Some(comp.display_id) ELSE None]

ConvertReferences(comp, seq, references) ==
    [i \in DOMAIN references |-> ConvertReference(comp, seq, references[i], i - 1)]

\* the keys _store_extra_properties_in_sbol3 accepts (lines 531-567)
KnownAnnotations ==
    {"date", "data_file_division", "keywords", "molecule_type", "organism",
     "source", "taxonomy", "topology", "gi", "accessions", "sequence_version",
     "references"}

\* one annotation stored on the component (the elif chain of lines 531-595);
\* the references of the record become new top-level objects
StoreAnnotation(comp, seq, annotation, value) ==
    CASE annotation = "date" ->
           [err |-> "", comp |-> [comp EXCEPT !.genbank_date = value],
            refs |-> <<>>]
      [] annotation = "data_file_division" ->
           [err |-> "",
            comp |-> IF value \in {Some("circular"), Some("linear")}
                     THEN [comp EXCEPT !.genbank_topology = value]
                     ELSE [comp EXCEPT !.genbank_division = value],
            refs |-> <<>>]
      [] annotation = "keywords" ->
           [err |-> "",
            comp |-> [comp EXCEPT !.genbank_keywords = SortStrings(value)],
            refs |-> <<>>]
      [] annotation = "molecule_type" ->
           [err |-> "",
            comp |-> [comp EXCEPT !.genbank_molecule_type = value],
            refs |-> <<>>]
      [] annotation = "organism" ->
           [err |-> "", comp |-> [comp EXCEPT !.genbank_organism = value],
            refs |-> <<>>]
      [] annotation = "source" ->
           [err |-> "", comp |-> [comp EXCEPT !.genbank_source = value],
            refs |-> <<>>]
      [] annotation = "taxonomy" ->
           [err |-> "",
            comp |-> [comp EXCEPT !.genbank_taxonomy = Some(JoinComma(value))],
            refs |-> <<>>]
      [] annotation = "topology" ->
           [err |-> "", comp |-> [comp EXCEPT !.genbank_topology = value],
            refs |-> <<>>]
      [] annotation = "gi" ->
           [err |-> "", comp |-> [comp EXCEPT !.genbank_gi = value],
            refs |-> <<>>]
      [] annotation = "accessions" ->
           [err |-> "",
            comp |-> [comp EXCEPT !.genbank_accessions = SortStrings(value)],
            refs |-> <<>>]
      [] annotation = "sequence_version" ->
           [err |-> "",
            comp |-> [comp EXCEPT !.genbank_seq_version = value],
            refs |-> <<>>]
      [] annotation = "references" ->
           [err |-> "", comp |-> comp,
            refs |-> ConvertReferences(comp, seq, value)]
      [] OTHER ->
           [err |-> "ValueError: annotation", comp |-> comp, refs |-> <<>>]

\* the loop over record.annotations that goes on after an error
RECURSIVE StoreAnnotationsLenient(_, _, _, _)
StoreAnnotationsLenient(comp, seq, annotations, refs) ==
    IF annotations = <<>> THEN [err |-> "", comp |-> comp, refs |-> refs]
    ELSE LET Continue(r) ==
                 StoreAnnotationsLenient(r.comp, seq, Tail(annotations),
                                         refs \o r.refs)
         IN  Continue(StoreAnnotation(comp, seq, Head(annotations)[1],
                                      Head(annotations)[2]))

\* the loop over record.annotations, stopping at the first error
RECURSIVE StoreAnnotations(_, _, _, _)
StoreAnnotations(comp, seq, annotations, refs) ==
    IF annotations = <<>> THEN [err |-> "", comp |-> comp, refs |-> refs]
    ELSE LET Continue(r) ==
                 IF r.err # "" THEN [err |-> r.err, comp |-> r.comp, refs |-> refs]
                 ELSE StoreAnnotations(r.comp, seq, Tail(annotations),
                                       refs \o r.refs)
         IN  Continue(StoreAnnotation(comp, seq, Head(annotations)[1],
                                      Head(annotations)[2]))

\* _store_extra_properties_in_sbol3 (lines 515-598): the component with its
\* extension properties set and the reference objects added to the document
store_extra_properties_in_sbol3(comp, seq, record) ==
    LET Finish(r) ==
            IF r.err # "" THEN r
            ELSE [r EXCEPT !.comp.genbank_locus = Some(record.name)]
    IN  Finish(StoreAnnotations([comp EXCEPT !.genbank_record_id = record.id],
                                seq, record.annotations, <<>>))

\* the topology of a record (lines 247-251); without a topology field the
\* division field is read, a KeyError when the record has none
RecordTopology(record) ==
    IF HasKey(record.annotations, "topology")
    THEN [err |-> "", topology |-> Get(record.annotations, "topology")]
    ELSE IF ~HasKey(record.annotations, "data_file_division")
    THEN [err |-> "KeyError: data_file_division", topology |-> Some("linear")]
    ELSE IF Get(record.annotations, "data_file_division")
                \in {Some("circular"), Some("linear")}
    THEN [err |-> "", topology |-> Get(record.annotations, "data_file_division")]
    ELSE [err |-> "", topology |-> Some("linear")]

\* one record (lines 244-338): the top-level objects it adds to the document
ConvertRecord(gb2so, namespace, record) ==
    LET Finish(t, seq, x, f) ==
            IF t.err # "" THEN [err |-> t.err, objects |-> <<>>]
            ELSE IF x.err # "" THEN [err |-> x.err, objects |-> <<>>]
            ELSE IF f.err # "" THEN [err |-> f.err, objects |-> <<>>]
            ELSE [err |-> "",
                  objects |-> <<[x.comp EXCEPT !.features = f.feats], seq>>
                                  \o x.refs]
        Build(t, seq) ==
            Finish(t, seq,
                   store_extra_properties_in_sbol3(
                       [NewComponent(namespace, record.name,
                            COMP_TYPES \o (IF t.topology = Some("linear")
                                           THEN <<SO_LINEAR>> ELSE <<SO_CIRCULAR>>),
                            COMP_ROLES, record.description)
                        EXCEPT !.sequences = <<seq.identity>>],
                       seq, record),
                   ConvertFeatures(gb2so, seq, record.features, <<>>))
    IN  Build(RecordTopology(record),
              NewSequence(namespace, record.name, Lower(Val(record.seq)),
                          SEQUENCE_ENCODING))

\* the loop over the records of the file, stopping at the first error
RECURSIVE ConvertRecords(_, _, _, _)
ConvertRecords(gb2so, namespace, recs, objects) ==
    IF recs = <<>> THEN [err |-> "", objects |-> objects]
    ELSE LET Continue(r) ==
                 IF r.err # "" THEN [err |-> r.err, objects |-> <<>>]
                 ELSE ConvertRecords(gb2so, namespace, Tail(recs),
                                     objects \o r.objects)
         IN  Continue(ConvertRecord(gb2so, namespace, Head(recs)))

\* doc.write(fpath=sbol3_file) when write is set (lines 339-343): the content
\* of the file, None when none is written
DocWrite(write, objects) == IF write THEN Some(objects) ELSE None

\* convert_genbank_to_sbol3 (lines 211-344): the class-level maps after the
\* call, the error raised ("" for none), the document returned and the file
\* written
convert_genbank_to_sbol3(gb2so, so2gb, gb_csv, so_csv, recs, namespace, write) ==
    LET Finish(m, r) ==
            IF m.ret = 0
            THEN [err |-> "ValueError: csv", gb2so |-> m.gb2so, so2gb |-> m.so2gb,
                  doc |-> None, file |-> None]
            ELSE IF r.err # ""
            THEN [err |-> r.err, gb2so |-> m.gb2so, so2gb |-> m.so2gb,
                  doc |-> None, file |-> None]
            ELSE [err |-> "", gb2so |-> m.gb2so, so2gb |-> m.so2gb,
                  doc |-> Some(r.objects),
                  file |-> DocWrite(write, r.objects)]
        Convert(m) == Finish(m, ConvertRecords(m.gb2so, namespace, recs, <<>>))
    IN  Convert(create_GB_SO_role_mappings(gb2so, so2gb, gb_csv, so_csv,
                                           TRUE, FALSE))


----------------------------------------------------------------------------
(* The reverse converter.                                                  *)

\* doc.find(text): the position of the first top-level object with that
\* identity or that display_id, 0 when there is none
Find(objects, text) ==
    IF \E i \in DOMAIN objects :
           objects[i].identity = text \/ objects[i].display_id = text
    THEN CHOOSE i \in DOMAIN objects :
           /\ objects[i].identity = text \/ objects[i].display_id = text
           /\ \A j \in DOMAIN objects :
                 (objects[j].identity = text \/ objects[j].display_id = text)
                     => i <= j
    ELSE 0

\* str(value) of an optional text
StrOf(o) == IF o = None THEN <<"None">> ELSE Val(o)

IsReference(obj) ==
    obj.kind = "CustomTopLevel" /\ obj.type_uri = CUSTOM_REFERENCE_PROPERTY_URI

\* the references dict in which a reference object that names no Component
\* of the document goes to the first object of the document
RECURSIVE CollectReferencesOfFirst(_, _, _)
CollectReferencesOfFirst(objects, i, references) ==
    IF i > Len(objects) THEN references
    ELSE LET obj == objects[i]
             f == IF IsReference(obj) THEN Find(objects, StrOf(obj.component))
                  ELSE 0
             c == IF IsReference(obj) /\ (f = 0 \/ objects[f].kind # "Component")
                  THEN 1 ELSE f
         IN  IF c # 0 /\ objects[c].kind = "Component"
             THEN CollectReferencesOfFirst(objects, i + 1,
                      MapSet(references, c,
                             IF c \in DOMAIN references
                             THEN Append(references[c], obj) ELSE <<obj>>))
             ELSE CollectReferencesOfFirst(objects, i + 1, references)

\* the references dict (lines 368-373): for the position of each Component
\* found by a back-reference, its reference objects in document order
RECURSIVE CollectReferences(_, _, _)
CollectReferences(objects, i, references) ==
    IF i > Len(objects) THEN references
    ELSE LET obj == objects[i]
             c == IF IsReference(obj) THEN Find(objects, StrOf(obj.component))
                  ELSE 0
         IN  IF c # 0 /\ objects[c].kind = "Component"
             THEN CollectReferences(objects, i + 1,
                      MapSet(references, c,
                             IF c \in DOMAIN references
                             THEN Append(references[c], obj) ELSE <<obj>>))
             ELSE CollectReferences(objects, i + 1, references)

\* the locations of one feature in stored order (lines 433-450): the parts,
\* the strand left by the last location, and the error raised
RECURSIVE ReverseLocations(_, _, _)
ReverseLocations(locations, parts, strand) ==
    IF locations = <<>> THEN [err |-> "", parts |-> parts, strand |-> strand]
    ELSE LET loc == Head(locations)
             s == IF loc.orientation = Some(SO_REVERSE) THEN BIO_STRAND_REVERSE
                  ELSE BIO_STRAND_FORWARD
         IN  IF loc.orientation # Some(SO_REVERSE)
                    /\ loc.orientation # Some(SO_FORWARD)
             THEN [err |-> "ValueError: orientation", parts |-> parts,
                   strand |-> s]
             ELSE IF loc.kind = "Cut"
             THEN [err |-> "AttributeError: start", parts |-> parts, strand |-> s]
             ELSE ReverseLocations(Tail(locations),
                      Append(parts, FeatureLocation(loc.start, loc.end, Some(s))),
                      s)

Keyed(parts) ==
    [i \in DOMAIN parts |-> [key |-> <<parts[i].start, parts[i].end>>,
                             val |-> parts[i]]]

\* the parts sorted without regard to the orientation of the feature
SortPartsAscending(parts, orientation) == Vals(SortKeyed(Keyed(parts)))

\* the parts in emission order (lines 453-456)
SortParts(parts, orientation) ==
    IF orientation = Some(SO_REVERSE) THEN Vals(SortKeyedDesc(Keyed(parts)))
    ELSE Vals(SortKeyed(Keyed(parts)))

\* feat_loc_positions left empty
PositionsEmpty(parts) == <<>>

\* feat_loc_positions (lines 457-458)
Positions(parts) == Flatten([i \in DOMAIN parts |-> <<parts[i].start, parts[i].end>>])

\* feat_loc_object (lines 459-462)
LocationObject(parts) ==
    IF Len(parts) > 1 THEN Some(CompoundLocation(parts, "join"))
    ELSE IF Len(parts) = 1 THEN Some(parts[1])
    ELSE None

\* the GenBank type of a role (lines 467-480)
ReverseRole(so2gb, roles) ==
    IF roles = <<>> THEN [err |-> "IndexError: roles", type |-> DEFAULT_GB_TERM]
    ELSE IF StrIndex(roles[1], ":", 6) = -1
    THEN [err |-> "ValueError: index", type |-> DEFAULT_GB_TERM]
    ELSE LET term == SliceFrom(roles[1], StrIndex(roles[1], ":", 6) - 2)
         IN  [err |-> "",
              type |-> IF So2GbHit(so2gb, term) THEN so2gb[term]
                       ELSE DEFAULT_GB_TERM]

HasColon(x) == StrIndex(x, ":", 0) # -1

\* int(x.split(":", 1)[0]) does not raise
IntOk(x) ==
    LET h == IF HasColon(x) THEN SplitHead(x) ELSE x
    IN  h # <<>> /\ \A i \in DOMAIN h : h[i] \in Range(Digits)

\* sorted(stored): by the text of each entry instead of its index
SortByText(stored) == SortStrings(stored)

\* sorted(stored, key=lambda x: int(x.split(":", 1)[0])) (lines 489-490)
SortByIndex(stored) ==
    Vals(SortKeyed([i \in DOMAIN stored |->
                      [key |-> <<ParseInt(IF HasColon(stored[i])
                                          THEN SplitHead(stored[i]) ELSE stored[i])>>,
                       val |-> stored[i]]]))

\* the loop of lines 494-495 over the sorted keys and values
RECURSIVE ZipQualifiers(_, _, _, _)
ZipQualifiers(keys, values, i, qualifiers) ==
    IF i > Len(keys) THEN [err |-> "", qualifiers |-> qualifiers]
    ELSE IF ~HasColon(keys[i]) \/ i > Len(values) \/ ~HasColon(values[i])
    THEN [err |-> "IndexError: qualifier", qualifiers |-> qualifiers]
    ELSE ZipQualifiers(keys, values, i + 1,
             DictSet(qualifiers, SplitRest(keys[i]), SplitRest(values[i])))

\* the qualifiers of a feature from its stored keys and values in the order
\* the storage returns them (lines 488-495)
RestoreQualifiers(obj_feat) ==
    IF ~obj_feat.ext THEN [err |-> "", qualifiers |-> <<>>]
    ELSE IF \E i \in DOMAIN obj_feat.qualifier_key : ~IntOk(obj_feat.qualifier_key[i])
    THEN [err |-> "ValueError: int", qualifiers |-> <<>>]
    ELSE IF \E i \in DOMAIN obj_feat.qualifier_value :
                ~IntOk(obj_feat.qualifier_value[i])
    THEN [err |-> "ValueError: int", qualifiers |-> <<>>]
    ELSE ZipQualifiers(SortByIndex(obj_feat.qualifier_key),
                       SortByIndex(obj_feat.qualifier_value), 1, <<>>)

\* one sequence feature (lines 424-499): the flat feature and its sort key
ReverseFeature(so2gb, obj_feat) ==
    LET Finish(l, parts, r, q) ==
            IF l.err # "" THEN [err |-> l.err]
            ELSE IF r.err # "" THEN [err |-> r.err]
            ELSE IF q.err # "" THEN [err |-> q.err]
            ELSE [err |-> "", key |-> Positions(parts),
                  val |-> SeqFeature(LocationObject(parts), Some(l.strand),
                                     r.type, q.qualifiers)]
        Build(l) ==
            Finish(l, SortParts(l.parts, obj_feat.orientation),
                   ReverseRole(so2gb, obj_feat.roles), RestoreQualifiers(obj_feat))
    IN  Build(ReverseLocations(obj_feat.locations, <<>>, BIO_STRAND_FORWARD))

\* the loop over the features of a component (lines 421-499); only sequence
\* features are converted
RECURSIVE ReverseFeatures(_, _, _)
ReverseFeatures(so2gb, obj_feats, done) ==
    IF obj_feats = <<>> THEN [err |-> "", feats |-> done]
    ELSE IF Head(obj_feats).kind # "SequenceFeature"
    THEN ReverseFeatures(so2gb, Tail(obj_feats), done)
    ELSE LET Continue(r) ==
                 IF r.err # "" THEN [err |-> r.err, feats |-> done]
                 ELSE ReverseFeatures(so2gb, Tail(obj_feats),
                          Append(done, [key |-> r.key, val |-> r.val]))
         IN  Continue(ReverseFeature(so2gb, Head(obj_feats)))


\* the locations of one reference (lines 652-668): no orientation check
RECURSIVE ReferenceLocations(_, _)
ReferenceLocations(locations, parts) ==
    IF locations = <<>> THEN [err |-> "", parts |-> parts]
    ELSE LET loc == Head(locations)
             s == IF loc.orientation = Some(SO_REVERSE) THEN BIO_STRAND_REVERSE
                  ELSE BIO_STRAND_FORWARD
         IN  IF loc.kind = "Cut"
             THEN [err |-> "AttributeError: start", parts |-> parts]
             ELSE ReferenceLocations(Tail(locations),
                      Append(parts, FeatureLocation(loc.start, loc.end, Some(s))))

\* the references of one component (lines 643-669)
RECURSIVE ReverseReferences(_, _)
ReverseReferences(refs, done) ==
    IF refs = <<>> THEN [err |-> "", references |-> done]
    ELSE LET reference == Head(refs)
             l == ReferenceLocations(reference.location, <<>>)
         IN  IF l.err # "" THEN [err |-> l.err, references |-> done]
             ELSE ReverseReferences(Tail(refs),
                      Append(done,
                             Reference(reference.authors, reference.comment,
                                       reference.journal, reference.title,
                                       reference.consrtm, reference.medline_id,
                                       reference.pubmed_id, l.parts)))

\* the annotations set for an extended component before its references
\* (lines 611-638), in the order they are set
ExtensionAnnotations(obj) ==
    <<<<"date", obj.genbank_date>>,
      <<"data_file_division", obj.genbank_division>>,
      <<"keywords", SortStrings(obj.genbank_keywords)>>,
      <<"molecule_type", obj.genbank_molecule_type>>,
      <<"organism", obj.genbank_organism>>>>
    \o (IF obj.genbank_source # Some("") THEN <<<<"source", obj.genbank_source>>>>
        ELSE <<>>)
    \o (IF TruthyChars(obj.genbank_taxonomy)
        THEN <<<<"taxonomy", SplitComma(Val(obj.genbank_taxonomy))>>>>
        ELSE <<>>)
    \o <<<<"topology", obj.genbank_topology>>>>
    \o (IF TruthyText(obj.genbank_gi) THEN <<<<"gi", obj.genbank_gi>>>> ELSE <<>>)
    \o <<<<"accessions", SortStrings(obj.genbank_accessions)>>,
         <<"sequnce_version", obj.genbank_seq_version>>>>

\* the id and the annotations of a record whose sequence version is the one
\* stored on the component
ResetWithStoredVersion(objects, c, references) ==
    LET obj == objects[c]
        Finish(r, a) ==
            IF r.err # "" THEN [err |-> r.err]
            ELSE [err |-> "",
                  id |-> IF obj.ext THEN obj.genbank_record_id
                         ELSE Some(obj.display_id),
                  annotations |->
                      DictSet(IF ~obj.ext THEN <<>>
                              ELSE IF c \in DOMAIN references
                              THEN Append(a, <<"references", r.references>>)
                              ELSE a,
                              "sequence_version",
                              IF obj.ext /\ obj.genbank_seq_version # None
                              THEN obj.genbank_seq_version
                              ELSE Some(DEFAULT_GB_SEQ_VERSION))]
    IN  Finish(IF obj.ext /\ c \in DOMAIN references
               THEN ReverseReferences(references[c], <<>>)
               ELSE [err |-> "", references |-> <<>>],
               ExtensionAnnotations(obj))

\* _reset_extra_properties_in_genbank (lines 601-674): the id and the
\* annotations of the record of component objects[c]
reset_extra_properties_in_genbank(objects, c, references) ==
    LET obj == objects[c]
        Finish(r, a) ==
            IF r.err # "" THEN [err |-> r.err]
            ELSE [err |-> "",
                  id |-> IF obj.ext THEN obj.genbank_record_id
                         ELSE Some(obj.display_id),
                  annotations |->
                      DictSet(IF ~obj.ext THEN <<>>
                              ELSE IF c \in DOMAIN references
                              THEN Append(a, <<"references", r.references>>)
                              ELSE a,
                              "sequence_version", Some(DEFAULT_GB_SEQ_VERSION))]
    IN  Finish(IF obj.ext /\ c \in DOMAIN references
               THEN ReverseReferences(references[c], <<>>)
               ELSE [err |-> "", references |-> <<>>],
               ExtensionAnnotations(obj))

\* the sequence of a component taken from the first of its sequences however
\* many it has
ComponentSequenceFirst(objects, obj) ==
    IF Len(obj.sequences) >= 1 /\ Find(objects, obj.sequences[1]) # 0
    THEN LET obj_seq == objects[Find(objects, obj.sequences[1])]
         IN  IF obj_seq.kind # "Sequence" \/ obj_seq.elements = None
             THEN [err |-> "AttributeError: elements", seq |-> None, marked |-> 0]
             ELSE [err |-> "", seq |-> Some(Upper(Val(obj_seq.elements))),
                   marked |-> Find(objects, obj.sequences[1])]
    ELSE [err |-> "", seq |-> None, marked |-> 0]

\* the sequence of a component (lines 396-406): the position of the sequence
\* object marked as converted (0 for none) and the text of the record
ComponentSequence(objects, obj) ==
    IF Len(obj.sequences) > 1
    THEN [err |-> "ValueError: sequences", seq |-> None, marked |-> 0]
    ELSE IF Len(obj.sequences) = 1 /\ Find(objects, obj.sequences[1]) # 0
    THEN LET obj_seq == objects[Find(objects, obj.sequences[1])]
         IN  IF obj_seq.kind # "Sequence" \/ obj_seq.elements = None
             THEN [err |-> "AttributeError: elements", seq |-> None, marked |-> 0]
             ELSE [err |-> "", seq |-> Some(Upper(Val(obj_seq.elements))),
                   marked |-> Find(objects, obj.sequences[1])]
    ELSE [err |-> "", seq |-> None, marked |-> 0]

\* one component (lines 393-505): its record and the sequence object it marks
ReverseComponent(so2gb, objects, c, references) ==
    LET obj == objects[c]
        Finish(q, x, f) ==
            IF q.err # "" THEN [err |-> q.err]
            ELSE IF x.err # "" THEN [err |-> x.err]
            ELSE IF f.err # "" THEN [err |-> f.err]
            ELSE [err |-> "", marked |-> q.marked,
                  record |-> SeqRecord(q.seq, x.id, obj.display_id,
                                       obj.description, x.annotations,
                                       Vals(SortKeyed(f.feats)))]
    IN  Finish(ComponentSequence(objects, obj),
               reset_extra_properties_in_genbank(objects, c, references),
               ReverseFeatures(so2gb, obj.features, <<>>))

\* the status of a converted component alone
MarkComponentOnly(logs, i, marked) == MapSet(logs, i, TRUE)

\* logs[obj] = False for every object the loop comes to
ResetStatus(logs, i) == MapSet(logs, i, FALSE)

\* if obj not in logs: logs[obj] = False (lines 389-392)
NewStatus(logs, i) == IF i \in DOMAIN logs THEN logs ELSE MapSet(logs, i, FALSE)

\* logs[obj_seq] = True for the sequence found (line 403) and logs[obj] = True
\* for the component (line 504)
MarkConverted(logs, i, marked) ==
    MapSet(IF marked # 0 THEN MapSet(logs, marked, TRUE) ELSE logs, i, TRUE)

\* the loop over the top-level objects that emits no record for a component
\* without sequences
RECURSIVE ReverseObjectsWithSequence(_, _, _, _, _, _)
ReverseObjectsWithSequence(so2gb, objects, references, i, logs, seq_records) ==
    IF i > Len(objects) THEN [err |-> "", logs |-> logs, seq_records |-> seq_records]
    ELSE LET logs1 == NewStatus(logs, i)
         IN  IF objects[i].kind # "Component" \/ objects[i].sequences = <<>>
             THEN ReverseObjectsWithSequence(so2gb, objects, references, i + 1,
                                             logs1, seq_records)
             ELSE LET Continue(r) ==
                          IF r.err # ""
                          THEN [err |-> r.err, logs |-> logs1,
                                seq_records |-> seq_records]
                          ELSE ReverseObjectsWithSequence(so2gb, objects,
                                   references, i + 1,
                                   MarkConverted(logs1, i, r.marked),
                                   Append(seq_records, r.record))
                  IN  Continue(ReverseComponent(so2gb, objects, i, references))

\* the loop over the top-level objects (lines 388-505): the status of every
\* object visited so far and the records built so far
RECURSIVE ReverseObjects(_, _, _, _, _, _)
ReverseObjects(so2gb, objects, references, i, logs, seq_records) ==
    IF i > Len(objects) THEN [err |-> "", logs |-> logs, seq_records |-> seq_records]
    ELSE LET logs1 == NewStatus(logs, i)
         IN  IF objects[i].kind # "Component"
             THEN ReverseObjects(so2gb, objects, references, i + 1, logs1,
                                 seq_records)
             ELSE LET Continue(r) ==
                          IF r.err # ""
                          THEN [err |-> r.err, logs |-> logs1,
                                seq_records |-> seq_records]
                          ELSE ReverseObjects(so2gb, objects, references, i + 1,
                                   MarkConverted(logs1, i, r.marked),
                                   Append(seq_records, r.record))
                  IN  Continue(ReverseComponent(so2gb, objects, i, references))

\* the records written whether or not write is set
SeqIOWriteAlways(write, seq_records) == Some(seq_records)

\* SeqIO.write(seq_records, gb_file) when write is set (lines 507-511): the
\* content of the file, None when none is written
SeqIOWrite(write, seq_records) == IF write THEN Some(seq_records) ELSE None

\* convert_sbol3_to_genbank (lines 347-512): the class-level maps after the
\* call, the error raised ("" for none), the value returned and the file
\* written
convert_sbol3_to_genbank(gb2so, so2gb, gb_csv, so_csv, objects, write) ==
    LET Finish(m, r) ==
            IF m.ret = 0
            THEN [err |-> "ValueError: csv", gb2so |-> m.gb2so, so2gb |-> m.so2gb,
                  ret |-> None, file |-> None]
            ELSE IF r.err # ""
            THEN [err |-> r.err, gb2so |-> m.gb2so, so2gb |-> m.so2gb,
                  ret |-> None, file |-> None]
            ELSE [err |-> "", gb2so |-> m.gb2so, so2gb |-> m.so2gb,
                  ret |-> Some([status |-> r.logs, seqrecords |-> r.seq_records]),
                  file |-> SeqIOWrite(write, r.seq_records)]
        Convert(m) ==
            Finish(m, ReverseObjects(m.so2gb, objects,
                                     CollectReferences(objects, 1, EmptyMap),
                                     1, EmptyMap, <<>>))
    IN  Convert(create_GB_SO_role_mappings(gb2so, so2gb, gb_csv, so_csv,
                                           FALSE, TRUE))


----------------------------------------------------------------------------
(* Inputs.  The two table files, the parsed records handed to the forward  *)
(* converter and the documents handed to the reverse converter are drawn   *)
(* from the families below; each family varies one part of the input.      *)

SO_PROMOTER == <<"S", "O", ":", "0", "0", "0", "0", "1", "6", "7">>

SO_CDS == <<"S", "O", ":", "0", "0", "0", "0", "3", "1", "6">>

SO_GENE == <<"S", "O", ":", "0", "0", "0", "0", "7", "0", "4">>

\* rows of a gb2so.csv: two GenBank terms share one SO term
Gb2SoRows ==
    <<[GenBank_Ontology |-> "promoter", SO_Ontology |-> SO_PROMOTER],
      [GenBank_Ontology |-> "CDS", SO_Ontology |-> SO_CDS],
      [GenBank_Ontology |-> "regulatory", SO_Ontology |-> SO_PROMOTER]>>

\* rows of a so2gb.csv
So2GbRows ==
    <<[GenBank_Ontology |-> "promoter", SO_Ontology |-> SO_PROMOTER],
      [GenBank_Ontology |-> "CDS", SO_Ontology |-> SO_CDS]>>

Gb2SoFiles == {None, Some(Gb2SoRows)}

So2GbFiles == {None, Some(So2GbRows)}

\* rows of another gb2so table a caller passes by its path: another term for
\* a type of gb2so.csv and a term for a type gb2so.csv has no row for
OtherGb2SoRows ==
    <<[GenBank_Ontology |-> "promoter", SO_Ontology |-> SO_GENE],
      [GenBank_Ontology |-> "xyz123", SO_Ontology |-> SO_GENE]>>

\* rows of another so2gb table a caller passes by its path
OtherSo2GbRows ==
    <<[GenBank_Ontology |-> "regulatory", SO_Ontology |-> SO_PROMOTER],
      [GenBank_Ontology |-> "gene", SO_Ontology |-> SO_GENE]>>

\* the instances of GenBank_SBOL3_Converter: the one whose converters are
\* called, and another
Converters == {"converter", "other"}

Txt(c) == <<c>>

\* the qualifiers every family starts from: the label alone
LabelOnly == <<<<LABEL, <<Txt("x")>>>>>>

BasePart == FeatureLocation(0, 1, Some(1))

\* the strand of a feature is the strand of its location: the common strand
\* of the parts, None when they differ
LocationStrand(location) ==
    IF \A i \in DOMAIN Parts(location) :
           Parts(location)[i].strand = Parts(location)[1].strand
    THEN Parts(location)[1].strand
    ELSE None

GbFeature(type, location, qualifiers) ==
    SeqFeature(Some(location), LocationStrand(location), type, qualifiers)

BaseAnnotations ==
    <<<<"data_file_division", Some("PLN")>>, <<"topology", Some("linear")>>>>

GbRecord(name, annotations, features) ==
    SeqRecord(Some(<<"A", "C", "G", "T">>), Some(name \o <<".1">>), name,
              Some("a description"), annotations, features)

NameA == <<"BBa_a">>

NameB == <<"BBa_b">>

\* location parts: every start <= end up to MaxCoord, on either strand
GbParts ==
    {p \in {FeatureLocation(a, b, s) :
                a \in 0..MaxCoord, b \in 0..MaxCoord, s \in {Some(1), Some(-1)}} :
        p.start <= p.end}

\* locations: one part (also with strand 0 or no strand) or a join of two
GbLocations ==
    GbParts
    \cup {FeatureLocation(0, 1, s) : s \in {Some(0), None}}
    \cup {CompoundLocation(<<p, q>>, "join") : p \in GbParts, q \in GbParts}

LocationRecords ==
    {<<GbRecord(NameA, BaseAnnotations, <<GbFeature("CDS", l, LabelOnly)>>)>> :
        l \in GbLocations}


\* qualifier keys and values beside the label: with and without the ":"
\* separator, a digit, an empty value, a value of two entries
ExtraKeys == {<<"n">>, <<"a", ":", "b">>, <<"1">>}

ExtraValues == {<<<<"v">>>>, <<<<"1", ":", "w">>>>, <<<<>>>>, <<<<"v">>, <<"w">>>>}

RECURSIVE QualifierLists(_)
QualifierLists(n) ==
    IF n = 0 THEN {<<>>}
    ELSE {Append(q, <<k, v>>) :
            q \in {x \in QualifierLists(n - 1) : Len(x) = n - 1},
            k \in ExtraKeys, v \in ExtraValues}
         \cup QualifierLists(n - 1)

DistinctKeys(q) == \A i, j \in DOMAIN q : q[i][1] = q[j][1] => i = j

\* a list of eleven and more qualifiers, so that an index has two digits
LongLen == 11

LongQualifiers ==
    [i \in 1..LongLen |->
        IF i = 2 THEN <<LABEL, <<Txt("x")>>>>
        ELSE <<<<"k">> \o FormatInt(LongLen - i), <<<<"v">> \o FormatInt(i)>>>>]

\* the label first, last or missing
GbQualifiers ==
    {LabelOnly \o q : q \in {x \in QualifierLists(MaxQualifiers) : DistinctKeys(x)}}
    \cup {q \o LabelOnly : q \in {x \in QualifierLists(1) : Len(x) = 1}}
    \cup {q \in QualifierLists(1) : Len(q) = 1 /\ q[1][1] = <<"n">>}
    \cup {LongQualifiers}

QualifierRecords ==
    {<<GbRecord(NameA, BaseAnnotations,
                <<GbFeature("CDS", BasePart, q)>>)>> : q \in GbQualifiers}

\* feature types with and without a row in the tables
GbTypes == {"promoter", "CDS", "regulatory", "xyz123", "misc_feature"}

TypeRecords ==
    {<<GbRecord(NameA, BaseAnnotations,
                <<GbFeature(t, BasePart, LabelOnly)>>)>> : t \in GbTypes}
    \cup {<<GbRecord(NameA, BaseAnnotations,
                     <<GbFeature("xyz123", BasePart, LabelOnly),
                       GbFeature("promoter", FeatureLocation(1, 2, Some(1)),
                                 LabelOnly)>>)>>}

\* two features in either order of their positions
OrderRecords ==
    {<<GbRecord(NameA, BaseAnnotations,
                <<GbFeature("CDS", p, LabelOnly),
                  GbFeature("promoter", q, LabelOnly)>>)>> :
        p \in {FeatureLocation(0, 2, Some(1)), FeatureLocation(1, 2, Some(-1))},
        q \in {FeatureLocation(0, 1, Some(1)), FeatureLocation(2, 2, Some(1))}}

GbReference(title, location) ==
    Reference(Some("an author"), Some(""), Some("a journal"), Some(title),
              Some(""), Some(""), Some("1"), location)

FullAnnotations ==
    <<<<"molecule_type", Some("DNA")>>, <<"topology", Some("circular")>>,
      <<"data_file_division", Some("PLN")>>, <<"date", Some("01-JAN-2000")>>,
      <<"accessions", <<Txt("a"), Txt("b")>>>>, <<"sequence_version", Some(2)>>,
      <<"keywords", <<Txt("k")>>>>, <<"source", Some("a source")>>,
      <<"organism", Some("an organism")>>,
      <<"taxonomy", <<Txt("a"), Txt("b")>>>>, <<"gi", Some("1")>>>>

\* record metadata: the enumerated fields, present and absent, in several
\* orders and with the values the two helpers treat specially, and fields
\* outside the enumerated list
GbAnnotations ==
    {<<>>, BaseAnnotations, FullAnnotations,
     <<<<"topology", Some("circular")>>>>,
     <<<<"data_file_division", Some("circular")>>>>,
     <<<<"data_file_division", Some("PLN")>>>>,
     <<<<"data_file_division", Some("linear")>>, <<"topology", Some("circular")>>>>,
     <<<<"topology", Some("circular")>>, <<"data_file_division", Some("linear")>>>>,
     Append(BaseAnnotations, <<"keywords", <<Txt("b"), Txt("a")>>>>),
     Append(BaseAnnotations, <<"accessions", <<Txt("b"), Txt("a")>>>>),
     Append(BaseAnnotations, <<"source", Some("")>>),
     Append(BaseAnnotations, <<"source", Some("a source")>>),
     Append(BaseAnnotations, <<"gi", Some("")>>),
     Append(BaseAnnotations, <<"taxonomy", <<>>>>),
     Append(BaseAnnotations, <<"taxonomy", <<<<"a", ",", "b">>>>>>),
     Append(BaseAnnotations, <<"sequence_version", Some(1)>>),
     Append(BaseAnnotations, <<"sequence_version", Some(2)>>),
     Append(BaseAnnotations, <<"comment", Some("a comment")>>),
     <<<<"structured_comment", Some("a comment")>>>> \o BaseAnnotations,
     Append(FullAnnotations, <<"contig", Some("a contig")>>),
     <<<<"comment", Some("a comment")>>>>,
     Append(BaseAnnotations,
            <<"references",
              <<GbReference("t1", <<FeatureLocation(0, 2, None)>>),
                GbReference("t2", <<FeatureLocation(1, 1, Some(-1))>>)>>>>),
     Append(BaseAnnotations,
            <<"references", <<GbReference("t1", <<FeatureLocation(0, 2, None)>>),
                              GbReference("t2", <<>>)>>>>)}

MetadataRecords ==
    {<<GbRecord(NameA, a, <<>>)>> : a \in GbAnnotations}

\* files of two records, with and without references and unknown fields
MultiRecords ==
    {<<GbRecord(NameA, a, <<>>), GbRecord(NameB, b, <<>>)>> :
        a \in {BaseAnnotations,
               Append(BaseAnnotations,
                      <<"references",
                        <<GbReference("t1", <<FeatureLocation(0, 2, None)>>),
                          GbReference("t2", <<FeatureLocation(0, 1, None)>>)>>>>)},
        b \in {BaseAnnotations,
               Append(BaseAnnotations,
                      <<"references",
                        <<GbReference("t3", <<FeatureLocation(1, 2, None)>>)>>>>),
               Append(BaseAnnotations, <<"comment", Some("a comment")>>),
               <<>>}}

\* the parsed files handed to convert_genbank_to_sbol3
GbFiles ==
    LocationRecords \cup QualifierRecords \cup TypeRecords \cup OrderRecords
        \cup MetadataRecords \cup MultiRecords


\* sbol3.Attachment(identity, source)
Attachment(namespace, name) ==
    [kind |-> "Attachment", identity |-> <<namespace>> \o name,
     display_id |-> name]

\* sbol3.SubComponent(instance_of)
SubComponent(instance_of) ==
    [kind |-> "SubComponent", instance_of |-> instance_of]

DocSequence(name) ==
    NewSequence(TEST_NAMESPACE, name, <<"a", "c", "g", "t">>, SEQUENCE_ENCODING)

\* a component read from a file: the builder registered in __init__ makes it
\* an extended component; one built by hand may be a plain sbol3.Component
DocComponent(name, ext, sequences, features) ==
    [NewComponent(TEST_NAMESPACE, name, COMP_TYPES \o <<SO_LINEAR>>, COMP_ROLES,
                  Some("a description"))
     EXCEPT !.ext = ext, !.sequences = sequences, !.features = features]

SeqA == DocSequence(NameA)

SeqB == DocSequence(NameB)

\* documents that differ in their top-level objects: components with no,
\* one, two or an unresolvable sequence, sequences no component uses,
\* attachments, and a sequence before or after its component
StructureDocs ==
    {<<DocComponent(NameA, e, <<SeqA.identity>>, <<>>), SeqA>> : e \in BOOLEAN}
    \cup
    {<<SeqA, DocComponent(NameA, TRUE, <<SeqA.identity>>, <<>>)>>,
     <<DocComponent(NameA, TRUE, <<>>, <<>>)>>,
     <<DocComponent(NameA, TRUE, <<>>, <<>>), SeqA>>,
     <<DocComponent(NameA, TRUE, <<SeqB.identity>>, <<>>), SeqA>>,
     <<DocComponent(NameA, TRUE, <<SeqA.identity, SeqB.identity>>, <<>>),
       SeqA, SeqB>>,
     <<DocComponent(NameB, TRUE, <<SeqB.identity>>, <<>>), SeqB,
       DocComponent(NameA, TRUE, <<SeqA.identity, SeqB.identity>>, <<>>), SeqA>>,
     <<DocComponent(NameA, TRUE, <<SeqA.identity>>, <<>>), SeqA,
       Attachment(TEST_NAMESPACE, <<"attachment">>)>>,
     <<Attachment(TEST_NAMESPACE, <<"attachment">>), SeqA,
       DocComponent(NameA, TRUE, <<SeqA.identity>>, <<>>),
       DocComponent(NameB, FALSE, <<>>, <<>>), SeqB>>,
     <<Attachment(TEST_NAMESPACE, <<"attachment">>)>>,
     <<DocComponent(NameA, TRUE, <<SeqA.identity>>, <<>>),
       DocComponent(NameB, TRUE, <<SeqA.identity>>, <<>>), SeqA, SeqB>>}

\* orientations stored on a location or a feature: the two canonical values,
\* none, and another value
Orientations ==
    {Some(SO_FORWARD), Some(SO_REVERSE), None, Some("SO_OTHER")}

DocLocations ==
    {RangeLoc(SeqA.identity, a, b, o) :
        a \in 0..1, b \in 1..MaxCoord, o \in {Some(SO_FORWARD), Some(SO_REVERSE)}}

PromoterRole == DropLast(SO_NS, 3) \o SO_PROMOTER

DocFeature(locations, roles, orientation) ==
    [NewFeature(locations, roles, Some(Txt("x")), orientation)
     EXCEPT !.qualifier_key = <<<<"0", ":">> \o LABEL>>,
            !.qualifier_value = <<<<"0", ":", "x">>>>]

FeatureDoc(features) ==
    <<DocComponent(NameA, TRUE, <<SeqA.identity>>, features), SeqA>>

\* documents that differ in the locations of one feature: none, one or two
\* ranges in either stored order under every feature orientation, a cut, and
\* locations whose orientation is not canonical
LocationDocs ==
    {FeatureDoc(<<DocFeature(<<p, q>>, <<PromoterRole>>, o)>>) :
        p \in DocLocations, q \in DocLocations, o \in Orientations}
    \cup
    {FeatureDoc(<<DocFeature(<<p>>, <<PromoterRole>>, o)>>) :
        p \in DocLocations, o \in Orientations}
    \cup
    {FeatureDoc(<<DocFeature(<<RangeLoc(SeqA.identity, 0, 1, o)>>,
                             <<PromoterRole>>, Some(SO_FORWARD))>>) :
        o \in Orientations}
    \cup
    {FeatureDoc(<<DocFeature(<<Cut(SeqA.identity, 1, o)>>,
                             <<PromoterRole>>, Some(SO_FORWARD))>>) :
        o \in Orientations}
    \cup
    {FeatureDoc(<<DocFeature(<<>>, <<PromoterRole>>, Some(SO_FORWARD))>>)}

\* roles: SO terms with and without a row in so2gb.csv, a term of another
\* ontology, and identifiers that are not of the form of an SO-term URI
DocRoles ==
    {<<PromoterRole>>,
     <<DropLast(SO_NS, 3) \o SO_CDS>>,
     <<DropLast(SO_NS, 3) \o SO_GENE>>,
     <<DropLast(SO_NS, 3) \o DEFAULT_SO_TERM>>,
     <<DropLast(SO_NS, 3) \o SO_GENE, PromoterRole>>,
     <<DropLast(SO_NS, 3) \o <<"G", "O", ":", "0", "0", "0", "0", "1", "6", "7">>>>,
     <<<<"h", "t", "t", "p", ":", "/", "/", "x", ".", "o", "r", "g", "/", "p", "r", "o", "m", "o", "t", "e", "r">>>>,
     <<<<"u", "r", "n", ":", "x">>>>,
     <<SO_PROMOTER>>,
     <<>>}

RoleDocs ==
    {FeatureDoc(<<DocFeature(<<RangeLoc(SeqA.identity, 0, 1, Some(SO_FORWARD))>>,
                             r, Some(SO_FORWARD))>>) : r \in DocRoles}

\* documents whose component has features of several kinds
FeatureKindDocs ==
    {FeatureDoc(<<SubComponent(<<TEST_NAMESPACE>> \o NameB)>>),
     FeatureDoc(<<DocFeature(<<RangeLoc(SeqA.identity, 1, 2, Some(SO_FORWARD))>>,
                             <<PromoterRole>>, Some(SO_FORWARD)),
                  SubComponent(<<TEST_NAMESPACE>> \o NameB),
                  DocFeature(<<RangeLoc(SeqA.identity, 0, 1, Some(SO_REVERSE))>>,
                             <<PromoterRole>>, Some(SO_REVERSE))>>),
     FeatureDoc(<<[DocFeature(<<RangeLoc(SeqA.identity, 0, 1, Some(SO_FORWARD))>>,
                              <<PromoterRole>>, Some(SO_FORWARD))
                   EXCEPT !.ext = FALSE]>>)}

\* a reference object of a component with the locations given
DocReference(comp, ind, locations) ==
    [NewCustomReference(comp, ind)
     EXCEPT !.title = Some("t"), !.component = Some(comp.display_id),
            !.location = locations]

\* documents with reference objects: one reference whose location has any
\* orientation, two references of one component, a reference of a plain
\* component, and a reference of no component
ReferenceDocs ==
    {<<DocComponent(NameA, TRUE, <<SeqA.identity>>, <<>>), SeqA,
       DocReference(DocComponent(NameA, TRUE, <<>>, <<>>), 0,
                    <<RangeLoc(SeqA.identity, 0, 1, o)>>)>> : o \in Orientations}
    \cup
    {<<DocComponent(NameA, TRUE, <<SeqA.identity>>, <<>>), SeqA,
       DocReference(DocComponent(NameA, TRUE, <<>>, <<>>), 1,
                    <<RangeLoc(SeqA.identity, 0, 1, Some(SO_FORWARD))>>),
       DocReference(DocComponent(NameA, TRUE, <<>>, <<>>), 0,
                    <<RangeLoc(SeqA.identity, 0, 2, Some(SO_REVERSE))>>)>>,
     <<DocComponent(NameA, FALSE, <<SeqA.identity>>, <<>>), SeqA,
       DocReference(DocComponent(NameA, FALSE, <<>>, <<>>), 0,
                    <<RangeLoc(SeqA.identity, 0, 1, None)>>)>>,
     <<DocComponent(NameA, TRUE, <<SeqA.identity>>, <<>>), SeqA,
       DocReference(DocComponent(NameB, TRUE, <<>>, <<>>), 0,
                    <<RangeLoc(SeqA.identity, 0, 1, None)>>)>>}

\* the documents handed to convert_sbol3_to_genbank without a forward
\* conversion
SbolDocs ==
    StructureDocs \cup LocationDocs \cup RoleDocs \cup FeatureKindDocs
        \cup ReferenceDocs


----------------------------------------------------------------------------
(* Reading a document back from a file.  The file keeps no order of the    *)
(* top-level objects, of the features of a component, of the locations of  *)
(* a feature or a reference, or of the values of a text property: doc.read *)
(* returns them in any order.                                              *)

Rotate(s) == IF s = <<>> THEN s ELSE Tail(s) \o <<Head(s)>>

\* the orders a stored list is read back in: every order of a short list,
\* three orders of a longer one
Orders(s) ==
    IF Len(s) <= MaxShuffle
    THEN {[i \in DOMAIN s |-> s[p[i]]] : p \in Permutations(DOMAIN s)}
    ELSE {s, Reverse(s), Rotate(s)}

\* the tuples that take their i-th element from the i-th set
RECURSIVE Choices(_)
Choices(sets) ==
    IF sets = <<>> THEN {<<>>}
    ELSE {<<x>> \o rest : x \in Head(sets), rest \in Choices(Tail(sets))}

FeatureReadings(f) ==
    IF f.kind # "SequenceFeature" THEN {f}
    ELSE {[f EXCEPT !.locations = l, !.qualifier_key = k, !.qualifier_value = v] :
            l \in Orders(f.locations), k \in Orders(f.qualifier_key),
            v \in Orders(f.qualifier_value)}

ObjectReadings(obj) ==
    IF obj.kind = "Component"
    THEN {[obj EXCEPT !.features = fs] :
            fs \in UNION {Orders(x) :
                     x \in Choices([i \in DOMAIN obj.features |->
                                      FeatureReadings(obj.features[i])])}}
    ELSE IF obj.kind = "CustomTopLevel"
    THEN {[obj EXCEPT !.location = l] : l \in Orders(obj.location)}
    ELSE {obj}

Readings(objects) ==
    UNION {Orders(x) :
             x \in Choices([i \in DOMAIN objects |-> ObjectReadings(objects[i])])}

----------------------------------------------------------------------------
(* The state machine: a caller runs a forward conversion or loads a        *)
(* document, runs a reverse conversion on the document or on the file the  *)
(* forward conversion wrote, and returns.  The two maps are class          *)
(* attributes and outlive every call.                                      *)

Init ==
    /\ gb2so_map = EmptyMap
    /\ so2gb_map = EmptyMap
    /\ gb2so_csv \in Gb2SoFiles
    /\ so2gb_csv \in So2GbFiles
    /\ records = None
    /\ fwd = None
    /\ sbol3_file = None
    /\ doc = None
    /\ rev = None
    /\ mapped = None

Idle == records = None /\ fwd = None /\ doc = None /\ rev = None

\* convert_genbank_to_sbol3(gb_file, sbol3_file, namespace, write)
ConvertGenbankToSbol3 ==
    /\ Idle
    /\ \E recs \in GbFiles, write \in BOOLEAN :
         \E r \in {convert_genbank_to_sbol3(gb2so_map, so2gb_map, gb2so_csv,
                                            so2gb_csv, recs, TEST_NAMESPACE,
                                            write)} :
             /\ records' = Some(recs)
             /\ gb2so_map' = r.gb2so
             /\ so2gb_map' = r.so2gb
             /\ fwd' = Some([err |-> r.err, write |-> write])
             /\ doc' = r.doc
             /\ sbol3_file' = r.file
    /\ UNCHANGED <<gb2so_csv, so2gb_csv, rev, mapped>>

\* doc3 = sbol3.Document(); doc3.read(file): a caller loads a document
ReadDocument ==
    /\ Idle
    /\ \E objects \in SbolDocs : doc' = Some(objects)
    /\ UNCHANGED <<gb2so_map, so2gb_map, gb2so_csv, so2gb_csv, records, fwd,
                   sbol3_file, rev, mapped>>

\* the effect of one call of convert_sbol3_to_genbank on objects
Reversed(objects, write) ==
    \E r \in {convert_sbol3_to_genbank(gb2so_map, so2gb_map, gb2so_csv,
                                       so2gb_csv, objects, write)} :
        /\ doc' = Some(objects)
        /\ gb2so_map' = r.gb2so
        /\ so2gb_map' = r.so2gb
        /\ rev' = Some([err |-> r.err, ret |-> r.ret, file |-> r.file,
                        write |-> write])

\* convert_sbol3_to_genbank(sbol3_file, doc, gb_file, write): on the document
\* passed in, or on the document read from sbol3_file when none is passed
ConvertSbol3ToGenbank ==
    /\ rev = None
    /\ \E write \in BOOLEAN :
         \/ /\ doc # None
            /\ Val(doc) # <<>>
            /\ Reversed(Val(doc), write)
         \/ /\ sbol3_file # None
            /\ \E objects \in Readings(Val(sbol3_file)) : Reversed(objects, write)
    /\ UNCHANGED <<gb2so_csv, so2gb_csv, records, fwd, sbol3_file, mapped>>

\* the caller returns: its records, documents and files go, the maps stay
Return ==
    /\ ~Idle \/ mapped # None
    /\ records' = None
    /\ fwd' = None
    /\ sbol3_file' = None
    /\ doc' = None
    /\ rev' = None
    /\ mapped' = None
    /\ UNCHANGED <<gb2so_map, so2gb_map, gb2so_csv, so2gb_csv>>

Next == ConvertGenbankToSbol3 \/ ReadDocument \/ ConvertSbol3ToGenbank \/ Return

Spec == Init /\ [][Next]_vars

----------------------------------------------------------------------------
(* Callers of create_GB_SO_role_mappings.  The method is public: a caller  *)
(* may load either table from the default path or from a path of its own   *)
(* on any instance, and then convert records that differ in the type of a  *)
(* feature or documents that differ in the roles of a feature.             *)

\* self.create_GB_SO_role_mappings(gb2so_csv, so2gb_csv, convert_gb2so,
\* convert_so2gb) called by a caller on the instance self
CreateMappings ==
    /\ Idle
    /\ mapped = None
    /\ \E self \in Converters,
          gb_csv \in {gb2so_csv, Some(OtherGb2SoRows)},
          so_csv \in {so2gb_csv, Some(OtherSo2GbRows)},
          convert_gb2so \in BOOLEAN, convert_so2gb \in BOOLEAN :
         \E m \in {create_GB_SO_role_mappings(gb2so_map, so2gb_map, gb_csv,
                                              so_csv, convert_gb2so,
                                              convert_so2gb)} :
             /\ gb2so_map' = m.gb2so
             /\ so2gb_map' = m.so2gb
             /\ mapped' = Some([self |-> self, gb2so_csv |-> gb_csv,
                                so2gb_csv |-> so_csv,
                                convert_gb2so |-> convert_gb2so,
                                convert_so2gb |-> convert_so2gb,
                                ret |-> m.ret])
    /\ UNCHANGED <<gb2so_csv, so2gb_csv, records, fwd, sbol3_file, doc, rev>>

\* converter.convert_genbank_to_sbol3 on records that differ in the type of
\* a feature
ConvertTypedRecords ==
    /\ Idle
    /\ \E recs \in TypeRecords, write \in BOOLEAN :
         \E r \in {convert_genbank_to_sbol3(gb2so_map, so2gb_map, gb2so_csv,
                                            so2gb_csv, recs, TEST_NAMESPACE,
                                            write)} :
             /\ records' = Some(recs)
             /\ gb2so_map' = r.gb2so
             /\ so2gb_map' = r.so2gb
             /\ fwd' = Some([err |-> r.err, write |-> write])
             /\ doc' = r.doc
             /\ sbol3_file' = r.file
    /\ UNCHANGED <<gb2so_csv, so2gb_csv, rev, mapped>>

\* a caller loads a document whose feature has any of the roles
ReadRoleDocument ==
    /\ Idle
    /\ \E objects \in RoleDocs : doc' = Some(objects)
    /\ UNCHANGED <<gb2so_map, so2gb_map, gb2so_csv, so2gb_csv, records, fwd,
                   sbol3_file, rev, mapped>>

MapNext ==
    \/ CreateMappings
    \/ ConvertTypedRecords
    \/ ReadRoleDocument
    \/ ConvertSbol3ToGenbank
    \/ Return

MapSpec == Init /\ [][MapNext]_vars

----------------------------------------------------------------------------
(* Properties.  A round trip is a forward conversion followed, before the  *)
(* caller returns, by a reverse conversion of the document it produced,    *)
(* both without an error.                                                  *)

ForwardDone == fwd # None /\ Val(fwd).err = ""

ReverseDone == rev # None /\ Val(rev).err = ""

RoundTrip == records # None /\ ForwardDone /\ ReverseDone

\* the records the reverse conversion returned
Emitted == Val(Val(rev).ret).seqrecords

\* a metadata field of a record, None when the record has none
Field(annotations, k) == IF HasKey(annotations, k) THEN Get(annotations, k) ELSE None

IsComplement(strand) == strand = Some(BIO_STRAND_REVERSE)

\* two locations with the same parts in the same order: start, end and
\* whether the part is on the complement strand
SameLocation(a, b) ==
    /\ Len(Parts(a)) = Len(Parts(b))
    /\ \A i \in DOMAIN Parts(a) :
          /\ Parts(a)[i].start = Parts(b)[i].start
          /\ Parts(a)[i].end = Parts(b)[i].end
          /\ IsComplement(Parts(a)[i].strand) <=> IsComplement(Parts(b)[i].strand)

\* an original feature o and an emitted feature e agree in type, strand,
\* location and qualifiers; an emitted qualifier value is one text where the
\* original is a list of texts
SameFeature(o, e) ==
    /\ e.type = o.type
    /\ IsComplement(e.strand) <=> IsComplement(o.strand)
    /\ e.location # None
    /\ SameLocation(Val(o.location), Val(e.location))
    /\ [i \in DOMAIN e.qualifiers |-> <<e.qualifiers[i][1], <<e.qualifiers[i][2]>>>>]
           = [i \in DOMAIN o.qualifiers |-> <<o.qualifiers[i][1], o.qualifiers[i][2]>>]

\* the references of a record up to the strand of their locations
ReferenceFields(annotations) ==
    IF ~HasKey(annotations, "references") THEN <<>>
    ELSE [i \in DOMAIN Get(annotations, "references") |->
            [Get(annotations, "references")[i]
             EXCEPT !.location = [j \in DOMAIN @ |-> <<@[j].start, @[j].end>>]]]

\* an original record o and an emitted record e agree in identifier,
\* description, sequence, every enumerated metadata field other than the
\* sequence version, and the feature list
SameRecord(o, e) ==
    /\ e.id = o.id
    /\ e.description = o.description
    /\ e.seq = o.seq
    /\ \A k \in KnownAnnotations \ {"sequence_version", "references"} :
          Field(e.annotations, k) = Field(o.annotations, k)
    /\ ReferenceFields(e.annotations) = ReferenceFields(o.annotations)
    /\ Len(e.features) = Len(o.features)
    /\ \A i \in DOMAIN o.features : SameFeature(o.features[i], e.features[i])

\* C1: a round trip of records whose metadata uses only the enumerated
\* fields yields, for every original record, a record equal to it in
\* identifier, description, sequence, metadata other than the sequence
\* version, and features.
C1_RoundTripReproduces ==
    RoundTrip =>
        /\ Len(Emitted) = Len(Val(records))
        /\ \A i \in DOMAIN Val(records) :
              \E j \in DOMAIN Emitted :
                  /\ Emitted[j].name = Val(records)[i].name
                  /\ SameRecord(Val(records)[i], Emitted[j])

\* every qualifier of the feature has one value, as when its keys are distinct
SingleValued(f) == \A i \in DOMAIN f.qualifiers : Len(f.qualifiers[i][2]) = 1

\* the (key, value) pairs of an original feature in their order
QualifierPairs(f) ==
    [i \in DOMAIN f.qualifiers |-> <<f.qualifiers[i][1], f.qualifiers[i][2][1]>>]

\* the index a stored key or value is prefixed with
StoredIndex(x) == ParseInt(SplitHead(x))

\* C2: after a round trip every feature whose qualifiers have distinct keys
\* comes back with the same (key, value) pairs in the same order, whatever
\* order the stored keys and the stored values were read back in.
C2_QualifierOrderKept ==
    RoundTrip =>
        \A i \in DOMAIN Val(records) :
            \A f \in DOMAIN Val(records)[i].features :
                SingleValued(Val(records)[i].features[f]) =>
                    \E j \in DOMAIN Emitted :
                        /\ Emitted[j].name = Val(records)[i].name
                        /\ Len(Emitted[j].features) = Len(Val(records)[i].features)
                        /\ \E g \in DOMAIN Emitted[j].features :
                              Emitted[j].features[g].qualifiers
                                  = QualifierPairs(Val(records)[i].features[f])

\* a round trip of a feature with ten or more qualifiers whose stored keys
\* and stored values were read back out of order and in different orders
C2_Witness ==
    /\ RoundTrip
    /\ \E c \in DOMAIN Val(doc) :
          /\ Val(doc)[c].kind = "Component"
          /\ \E f \in DOMAIN Val(doc)[c].features :
                LET k == Val(doc)[c].features[f].qualifier_key
                    v == Val(doc)[c].features[f].qualifier_value
                IN  /\ Len(k) >= 10
                    /\ \E a, b \in DOMAIN k :
                          a < b /\ StoredIndex(k[a]) > StoredIndex(k[b])
                    /\ \E a \in DOMAIN k : StoredIndex(k[a]) # StoredIndex(v[a])

\* the document the reverse conversion worked on
Converted == Val(doc)

\* (start, end) of a is not after (start, end) of b
NotAfter(a, b) == a.start < b.start \/ (a.start = b.start /\ a.end <= b.end)

\* the parts are the locations, each as often as it is stored
SameExtents(parts, locations) ==
    \A l \in DOMAIN locations :
        Cardinality({p \in DOMAIN parts :
                        /\ parts[p].start = locations[l].start
                        /\ parts[p].end = locations[l].end})
            = Cardinality({m \in DOMAIN locations :
                            /\ locations[m].start = locations[l].start
                            /\ locations[m].end = locations[l].end})

\* the location emitted for a feature of the document
EmittedAsStored(location, f) ==
    /\ location # None
    /\ Len(Parts(Val(location))) = Len(f.locations)
    /\ SameExtents(Parts(Val(location)), f.locations)
    /\ Len(f.locations) >= 2 =>
          /\ Val(location).kind = "CompoundLocation"
          /\ Val(location).operator = "join"
          /\ f.orientation = Some(SO_FORWARD) =>
                \A a, b \in DOMAIN Val(location).parts :
                    a < b => NotAfter(Val(location).parts[a], Val(location).parts[b])
          /\ f.orientation = Some(SO_REVERSE) =>
                \A a, b \in DOMAIN Val(location).parts :
                    a < b => NotAfter(Val(location).parts[b], Val(location).parts[a])
    /\ Len(f.locations) = 1 => Val(location).kind = "FeatureLocation"

\* C3: after a reverse conversion every feature with two or more locations
\* is emitted as a join of its locations sorted by (start, end), ascending
\* for a forward feature and descending for a reverse one, whatever order
\* they are stored in, and a feature with one location is emitted without
\* a join.
C3_JoinPartsSorted ==
    ReverseDone =>
        \A c \in DOMAIN Converted :
            Converted[c].kind = "Component" =>
                \A f \in DOMAIN Converted[c].features :
                    (/\ Converted[c].features[f].kind = "SequenceFeature"
                     /\ Converted[c].features[f].locations # <<>>) =>
                        \E j \in DOMAIN Emitted :
                            /\ Emitted[j].name = Converted[c].display_id
                            /\ \E g \in DOMAIN Emitted[j].features :
                                  EmittedAsStored(Emitted[j].features[g].location,
                                                  Converted[c].features[f])

\* a reverse conversion of a reverse feature whose two locations are stored
\* in ascending order
C3_Witness ==
    /\ ReverseDone
    /\ \E c \in DOMAIN Converted :
          /\ Converted[c].kind = "Component"
          /\ \E f \in DOMAIN Converted[c].features :
                /\ Converted[c].features[f].kind = "SequenceFeature"
                /\ Converted[c].features[f].orientation = Some(SO_REVERSE)
                /\ Len(Converted[c].features[f].locations) = 2
                /\ Converted[c].features[f].locations[1].start
                      < Converted[c].features[f].locations[2].start

\* a forward conversion has returned and no reverse conversion has run: doc
\* is the document it built
ForwardOnly == records # None /\ ForwardDone /\ rev = None

\* the component built for a record
ComponentOf(record) == Val(doc)[Find(Val(doc), record.name)]

\* the reference object number r built for a record
ReferenceOf(record, r) ==
    Val(doc)[Find(Val(doc), ComponentOf(record).identity
                               \o <<"/Reference_">> \o FormatInt(r - 1))]

\* a Cut at the coordinate for a part whose start is its end, a Range of the
\* same start and end for any other part
CutIffPoint(part, location) ==
    /\ location.kind = "Cut" <=> part.start = part.end
    /\ location.kind \in {"Cut", "Range"}
    /\ location.kind = "Cut" => location.at = part.start
    /\ location.kind = "Range" =>
          location.start = part.start /\ location.end = part.end

C5_PointAndIntervalComeBack ==
    (records # None /\ ForwardDone /\ rev # None /\ so2gb_csv # None) =>
        /\ ReverseDone
        /\ \A i \in DOMAIN Val(records) :
              \A f \in DOMAIN Val(records)[i].features :
                  \A p \in DOMAIN Parts(Val(Val(records)[i].features[f].location)) :
                      \E j \in DOMAIN Emitted :
                          /\ Emitted[j].name = Val(records)[i].name
                          /\ \E g \in DOMAIN Emitted[j].features :
                                /\ Emitted[j].features[g].location # None
                                /\ \E q \in DOMAIN Parts(Val(Emitted[j].features[g].location)) :
                                      /\ Parts(Val(Emitted[j].features[g].location))[q].start
                                            = Parts(Val(Val(records)[i].features[f].location))[p].start
                                      /\ Parts(Val(Emitted[j].features[g].location))[q].end
                                            = Parts(Val(Val(records)[i].features[f].location))[p].end
                                      /\ IsComplement(Parts(Val(Emitted[j].features[g].location))[q].strand)
                                            <=> IsComplement(Parts(Val(Val(records)[i].features[f].location))[p].strand)

\* the status map the reverse conversion returned
Status == Val(Val(rev).ret).status

\* the sequence at position i is the one sequence of some component
SequenceOfComponent(i) ==
    \E c \in DOMAIN Converted :
        /\ Converted[c].kind = "Component"
        /\ Len(Converted[c].sequences) = 1
        /\ Find(Converted, Converted[c].sequences[1]) = i

\* C6: after a successful reverse conversion the status map has one entry
\* per top-level object; it is true for every Component and for every
\* Sequence that is the one sequence of some Component, and false for every
\* other object.
C6_StatusOfConsumedObjects ==
    ReverseDone =>
        /\ DOMAIN Status = DOMAIN Converted
        /\ \A i \in DOMAIN Converted :
              Status[i] <=> \/ Converted[i].kind = "Component"
                            \/ /\ Converted[i].kind = "Sequence"
                               /\ SequenceOfComponent(i)

\* C6 as it is stated: the status is true for every Component and every
\* Sequence and false for every other object.
C6_StatusOfEverySequence ==
    ReverseDone =>
        /\ DOMAIN Status = DOMAIN Converted
        /\ \A i \in DOMAIN Converted :
              Status[i] <=> Converted[i].kind \in {"Component", "Sequence"}

\* a successful reverse conversion of a document with an attachment, a
\* sequence of a component and a sequence of no component
C6_Witness ==
    /\ ReverseDone
    /\ \E i \in DOMAIN Converted : Converted[i].kind = "Attachment"
    /\ \E i \in DOMAIN Converted :
          Converted[i].kind = "Sequence" /\ SequenceOfComponent(i)
    /\ \E i \in DOMAIN Converted :
          Converted[i].kind = "Sequence" /\ ~SequenceOfComponent(i)

\* the records lack nothing the forward converter reads: a topology or a
\* division, enumerated metadata fields only, a label on every feature
Convertible(recs) ==
    \A i \in DOMAIN recs :
        /\ HasKey(recs[i].annotations, "topology")
              \/ HasKey(recs[i].annotations, "data_file_division")
        /\ \A a \in DOMAIN recs[i].annotations :
              recs[i].annotations[a][1] \in KnownAnnotations
        /\ \A f \in DOMAIN recs[i].features :
              HasKey(recs[i].features[f].qualifiers, LABEL)

\* "https://identifiers.org/SO:0000110"
DefaultRoleUri ==
    <<"h", "t", "t", "p", "s", ":", "/", "/", "i", "d", "e", "n", "t", "i", "f",
      "i", "e", "r", "s", ".", "o", "r", "g", "/",
      "S", "O", ":", "0", "0", "0", "0", "1", "1", "0">>

\* C7: a forward conversion does not fail for the types of the features;
\* every feature it builds has exactly one role, and the role of a feature
\* whose type has no entry in the map is the default SO:0000110.
C7_UnmappedTypeGetsDefault ==
    /\ (records # None /\ fwd # None /\ gb2so_csv # None
            /\ Convertible(Val(records))) => ForwardDone
    /\ ForwardOnly =>
          \A i \in DOMAIN Val(records) :
              \A f \in DOMAIN Val(records)[i].features :
                  /\ Len(ComponentOf(Val(records)[i]).features[f].roles) = 1
                  /\ ~Gb2SoHit(gb2so_map, Val(records)[i].features[f].type) =>
                        ComponentOf(Val(records)[i]).features[f].roles[1]
                            = DefaultRoleUri

\* a forward conversion of a record with a feature of a type the map does
\* not have, followed by a feature of a type it has
C7_Witness ==
    /\ ForwardOnly
    /\ \E i \in DOMAIN Val(records) :
          \E f, g \in DOMAIN Val(records)[i].features :
              /\ f < g
              /\ ~Gb2SoHit(gb2so_map, Val(records)[i].features[f].type)
              /\ Gb2SoHit(gb2so_map, Val(records)[i].features[g].type)

\* the first role of the feature is the URI of an SO term of the map
RoleMapped(f) ==
    \E k \in DOMAIN so2gb_map :
        So2GbHit(so2gb_map, k) /\ f.roles[1] = DropLast(SO_NS, 3) \o k

\* C8: a reverse conversion does not fail for the role of a feature,
\* whatever the form of the role identifier, and a feature whose role has
\* no entry in the map is emitted with the type misc_feature.
C8_UnmappedRoleGetsDefault ==
    rev # None =>
        /\ Val(rev).err # "ValueError: index"
        /\ ReverseDone =>
              \A c \in DOMAIN Converted :
                  Converted[c].kind = "Component" =>
                      \A f \in DOMAIN Converted[c].features :
                          (/\ Converted[c].features[f].kind = "SequenceFeature"
                           /\ Converted[c].features[f].roles # <<>>
                           /\ ~RoleMapped(Converted[c].features[f])) =>
                              \E j \in DOMAIN Emitted :
                                  /\ Emitted[j].name = Converted[c].display_id
                                  /\ \E g \in DOMAIN Emitted[j].features :
                                        Emitted[j].features[g].type = DEFAULT_GB_TERM

\* some record has a metadata field outside the enumerated list
UnknownField(recs) ==
    \E i \in DOMAIN recs :
        \E a \in DOMAIN recs[i].annotations :
            recs[i].annotations[a][1] \notin KnownAnnotations

\* C9: a forward conversion of records with a metadata field outside the
\* enumerated list raises an error and leaves no document and no file; when
\* the records lack nothing else the error is that of the unknown field.
C9_UnknownFieldIsFatal ==
    (records # None /\ fwd # None /\ UnknownField(Val(records))) =>
        /\ Val(fwd).err # ""
        /\ doc = None
        /\ sbol3_file = None
        /\ (/\ gb2so_csv # None
            /\ \A i \in DOMAIN Val(records) :
                  /\ HasKey(Val(records)[i].annotations, "topology")
                        \/ HasKey(Val(records)[i].annotations, "data_file_division")
                  /\ \A f \in DOMAIN Val(records)[i].features :
                        HasKey(Val(records)[i].features[f].qualifiers, LABEL))
              => Val(fwd).err = "ValueError: annotation"

\* a forward conversion stopped by an unknown field that follows enumerated
\* fields of the same record
C9_Witness ==
    /\ records # None
    /\ fwd # None
    /\ Val(fwd).err = "ValueError: annotation"
    /\ \E i \in DOMAIN Val(records) :
          \E a, b \in DOMAIN Val(records)[i].annotations :
              /\ a < b
              /\ Val(records)[i].annotations[a][1] \in KnownAnnotations
              /\ Val(records)[i].annotations[b][1] \notin KnownAnnotations

\* some component of the document has more than one sequence
ManySequences ==
    \E c \in DOMAIN Converted :
        Converted[c].kind = "Component" /\ Len(Converted[c].sequences) > 1

\* nothing but the number of sequences of a component can fail: the table
\* exists, no component has features, no object is a reference, and a
\* sequence that is found is a Sequence
PlainDocument ==
    /\ so2gb_csv # None
    /\ \A c \in DOMAIN Converted :
          /\ Converted[c].kind # "CustomTopLevel"
          /\ Converted[c].kind = "Component" =>
                /\ Converted[c].features = <<>>
                /\ \A q \in DOMAIN Converted[c].sequences :
                      Find(Converted, Converted[c].sequences[q]) # 0 =>
                          Converted[Find(Converted, Converted[c].sequences[q])].kind
                              = "Sequence"

\* C10: a reverse conversion raises an error whenever some component has
\* more than one sequence, raises the error of the sequences for no other
\* document, and converts components with no or one sequence without error.
C10_ManySequencesIsFatal ==
    rev # None =>
        /\ ManySequences => Val(rev).err # "" /\ Val(rev).ret = None
        /\ Val(rev).err = "ValueError: sequences" => ManySequences
        /\ PlainDocument =>
              IF ManySequences THEN Val(rev).err = "ValueError: sequences"
              ELSE ReverseDone

\* a reverse conversion stopped at a component with two sequences after a
\* component with one sequence
C10_Witness ==
    /\ rev # None
    /\ Val(rev).err = "ValueError: sequences"
    /\ \E c, d \in DOMAIN Converted :
          /\ c < d
          /\ Converted[c].kind = "Component" /\ Len(Converted[c].sequences) = 1
          /\ Converted[d].kind = "Component" /\ Len(Converted[d].sequences) = 2

\* the orientation is one of the two canonical values
Canonical(o) == o \in {Some(SO_FORWARD), Some(SO_REVERSE)}

\* the references dict the reverse conversion built for its document
Grouped == CollectReferences(Converted, 1, EmptyMap)

\* a location of a sequence feature of a component has another orientation
OddFeatureLocation ==
    \E c \in DOMAIN Converted :
        /\ Converted[c].kind = "Component"
        /\ \E f \in DOMAIN Converted[c].features :
              /\ Converted[c].features[f].kind = "SequenceFeature"
              /\ \E l \in DOMAIN Converted[c].features[f].locations :
                    ~Canonical(Converted[c].features[f].locations[l].orientation)

\* a location of a reference of an extended component has another orientation
OddReferenceLocation ==
    \E c \in DOMAIN Grouped :
        /\ Converted[c].ext
        /\ \E r \in DOMAIN Grouped[c] :
              \E l \in DOMAIN Grouped[c][r].location :
                  ~Canonical(Grouped[c][r].location[l].orientation)

\* C11: a reverse conversion ends in an error whenever a location it
\* translates, of a feature or of a reference, has an orientation that is
\* neither the canonical forward value nor the canonical reverse value.
C11_OddOrientationIsFatal ==
    (rev # None /\ (OddFeatureLocation \/ OddReferenceLocation)) =>
        Val(rev).err # ""

\* the same for the locations of features alone
C11_OddFeatureOrientationIsFatal ==
    (rev # None /\ OddFeatureLocation) => Val(rev).err # ""

\* C12: a forward conversion without the gb2so table and a reverse
\* conversion without the so2gb table raise the error of the missing table,
\* whatever the records or the document would otherwise raise, and return
\* and write nothing.
C12_MissingTableIsFatal ==
    /\ (fwd # None /\ gb2so_csv = None) =>
          /\ Val(fwd).err = "ValueError: csv"
          /\ doc = None
          /\ sbol3_file = None
    /\ (rev # None /\ so2gb_csv = None) =>
          /\ Val(rev).err = "ValueError: csv"
          /\ Val(rev).ret = None
          /\ Val(rev).file = None

\* a reverse conversion without the so2gb table, asked to write, of a
\* document whose component has two sequences
C12_Witness ==
    /\ rev # None
    /\ so2gb_csv = None
    /\ Val(rev).write
    /\ ManySequences

\* C13: every record a reverse conversion emits has the sequence version 1,
\* whatever sequence version is stored on its component.
C13_SequenceVersionIsOne ==
    ReverseDone =>
        \A j \in DOMAIN Emitted :
            /\ HasKey(Emitted[j].annotations, "sequence_version")
            /\ Get(Emitted[j].annotations, "sequence_version") = Some(1)

\* a round trip of a record of sequence version 2, stored on its component
C13_Witness ==
    /\ RoundTrip
    /\ \E i \in DOMAIN Val(records) :
          Field(Val(records)[i].annotations, "sequence_version") = Some(2)
    /\ \E c \in DOMAIN Converted :
          /\ Converted[c].kind = "Component"
          /\ Converted[c].genbank_seq_version = Some(2)

\* C14: a conversion that raises an error returns nothing and writes no
\* file, even when the records or components before the failing one were
\* converted; a conversion with write unset writes no file; a conversion
\* that succeeds with write set writes all it returns.
C14_WriteOnlyAfterAll ==
    /\ fwd # None =>
          /\ Val(fwd).err # "" => doc = None /\ sbol3_file = None
          /\ ~Val(fwd).write => sbol3_file = None
          /\ (Val(fwd).err = "" /\ Val(fwd).write /\ rev = None) =>
                sbol3_file = doc
    /\ rev # None =>
          /\ Val(rev).err # "" => Val(rev).ret = None /\ Val(rev).file = None
          /\ ~Val(rev).write => Val(rev).file = None
          /\ (Val(rev).err = "" /\ Val(rev).write) =>
                Val(rev).file = Some(Emitted)

\* a forward conversion asked to write that fails at its second record with
\* nothing wrong in the first
C14_Witness ==
    /\ records # None
    /\ fwd # None
    /\ Val(fwd).write
    /\ Val(fwd).err = "ValueError: annotation"
    /\ Len(Val(records)) = 2
    /\ ~UnknownField(<<Val(records)[1]>>)
    /\ UnknownField(<<Val(records)[2]>>)

\* the topology a record asks for: its topology field, else its division
\* field when that is 'circular' or 'linear', else 'linear'
AskedTopology(record) ==
    IF HasKey(record.annotations, "topology")
    THEN Get(record.annotations, "topology")
    ELSE IF /\ HasKey(record.annotations, "data_file_division")
            /\ Get(record.annotations, "data_file_division")
                  \in {Some("circular"), Some("linear")}
    THEN Get(record.annotations, "data_file_division")
    ELSE Some("linear")

\* the records have nothing but their topology for the forward converter to
\* fail on: the table exists, every field is enumerated, every feature has
\* a label
FailingOnTopologyOnly ==
    /\ records # None /\ fwd # None /\ rev = None
    /\ gb2so_csv # None
    /\ ~UnknownField(Val(records))
    /\ \A i \in DOMAIN Val(records) :
          \A f \in DOMAIN Val(records)[i].features :
              HasKey(Val(records)[i].features[f].qualifiers, LABEL)

\* the component of every record has the type of the topology asked for
TypedAsAsked ==
    \A i \in DOMAIN Val(records) :
        \E t \in DOMAIN ComponentOf(Val(records)[i]).types :
            ComponentOf(Val(records)[i]).types[t]
                = IF AskedTopology(Val(records)[i]) = Some("linear")
                  THEN SO_LINEAR ELSE SO_CIRCULAR

\* C15: a forward conversion never fails for lack of a topology or a
\* division field, and gives every component the topology of its record:
\* that of the topology field, else that of a division field of value
\* 'circular' or 'linear', else linear.
C15_TopologyOfRecord ==
    FailingOnTopologyOnly => ForwardDone /\ TypedAsAsked

\* the same for records that have a topology or a division field
C15_TopologyOfRecordWithAField ==
    (/\ FailingOnTopologyOnly
     /\ \A i \in DOMAIN Val(records) :
           \/ HasKey(Val(records)[i].annotations, "topology")
           \/ HasKey(Val(records)[i].annotations, "data_file_division")) =>
        ForwardDone /\ TypedAsAsked

\* the sequence features among the features of a component, in stored order
SequenceFeatures(obj) ==
    SelectSeq(obj.features, LAMBDA f : f.kind = "SequenceFeature")

\* the sort key of an emitted feature: the start and end of each part of its
\* location in emission order
SortKeyOf(feature) ==
    IF feature.location = None THEN <<>>
    ELSE Flatten([i \in DOMAIN Parts(Val(feature.location)) |->
                    <<Parts(Val(feature.location))[i].start,
                      Parts(Val(feature.location))[i].end>>])

\* key a is not after key b in the order of Python lists
KeyNotAfter(a, b) == a = b \/ IntsLess(a, b)

\* the number of features of the list that equal e
Count(features, e) == Cardinality({i \in DOMAIN features : features[i] = e})

\* the record with the name of the component at position c
RecordOf(c) ==
    Emitted[CHOOSE j \in DOMAIN Emitted : Emitted[j].name = Converted[c].display_id]

\* C16: the features of every record a reverse conversion emits are the
\* conversions of the sequence features of its component, each as often as
\* it occurs, no feature of another kind among them, in an order in which
\* their sort keys never decrease.
C16_FeaturesSortedByPosition ==
    ReverseDone =>
        \A c \in DOMAIN Converted :
            Converted[c].kind = "Component" =>
                /\ Len(RecordOf(c).features) = Len(SequenceFeatures(Converted[c]))
                /\ \A f \in DOMAIN SequenceFeatures(Converted[c]) :
                      \E r \in {ReverseFeature(so2gb_map,
                                               SequenceFeatures(Converted[c])[f])} :
                          /\ r.err = ""
                          /\ Count(RecordOf(c).features, r.val)
                                = Cardinality(
                                    {g \in DOMAIN SequenceFeatures(Converted[c]) :
                                        ReverseFeature(so2gb_map,
                                            SequenceFeatures(Converted[c])[g]).val
                                          = r.val})
                /\ \A a, b \in DOMAIN RecordOf(c).features :
                      a < b => KeyNotAfter(SortKeyOf(RecordOf(c).features[a]),
                                           SortKeyOf(RecordOf(c).features[b]))

\* a reverse conversion of a component with a subcomponent between two
\* sequence features, the later of which comes first in the record
C16_Witness ==
    /\ ReverseDone
    /\ \E c \in DOMAIN Converted :
          /\ Converted[c].kind = "Component"
          /\ \E x \in DOMAIN Converted[c].features :
                Converted[c].features[x].kind = "SubComponent"
          /\ Len(SequenceFeatures(Converted[c])) = 2
          /\ RecordOf(c).features[1]
                = ReverseFeature(so2gb_map, SequenceFeatures(Converted[c])[2]).val
          /\ SortKeyOf(RecordOf(c).features[1]) # SortKeyOf(RecordOf(c).features[2])

\* reverse for the strand -1, forward for every other strand
OrientedAs(orientation, strand) ==
    /\ orientation \in {Some(SO_FORWARD), Some(SO_REVERSE)}
    /\ orientation = Some(SO_REVERSE) <=> strand = Some(-1)

\* C17: in the document of a forward conversion the orientation of every
\* feature and of every location of a feature is reverse exactly when the
\* strand of the flat feature or of the flat location part is -1, and
\* forward for the strands +1, 0 and none.
C17_ReverseIffStrandMinusOne ==
    ForwardOnly =>
        \A i \in DOMAIN Val(records) :
            \A f \in DOMAIN Val(records)[i].features :
                /\ OrientedAs(ComponentOf(Val(records)[i]).features[f].orientation,
                              Val(records)[i].features[f].strand)
                /\ \A p \in DOMAIN Parts(Val(Val(records)[i].features[f].location)) :
                      OrientedAs(
                          ComponentOf(Val(records)[i]).features[f].locations[p]
                              .orientation,
                          Parts(Val(Val(records)[i].features[f].location))[p].strand)

\* a forward conversion of a feature of no strand that joins a part of
\* strand -1 and a part of strand +1
C17_Witness ==
    /\ ForwardOnly
    /\ \E i \in DOMAIN Val(records) :
          \E f \in DOMAIN Val(records)[i].features :
              /\ Val(records)[i].features[f].strand = None
              /\ \E p, q \in DOMAIN Parts(Val(Val(records)[i].features[f].location)) :
                    /\ Parts(Val(Val(records)[i].features[f].location))[p].strand
                          = Some(-1)
                    /\ Parts(Val(Val(records)[i].features[f].location))[q].strand
                          = Some(1)

\* a forward conversion of a feature whose one location has the strand 0
C17_StrandZeroReached ==
    /\ ForwardOnly
    /\ \E i \in DOMAIN Val(records) :
          \E f \in DOMAIN Val(records)[i].features :
              Val(records)[i].features[f].strand = Some(0)

\* the titles of the references of a record in their order
Titles(annotations) ==
    IF ~HasKey(annotations, "references") THEN <<>>
    ELSE [i \in DOMAIN Get(annotations, "references") |->
            Get(annotations, "references")[i].title]

\* C18: after a round trip every record comes back with the references it
\* had, in their original order, and with none of another record.
C18_ReferencesOfEachRecord ==
    RoundTrip =>
        \A i \in DOMAIN Val(records) :
            \E j \in DOMAIN Emitted :
                /\ Emitted[j].name = Val(records)[i].name
                /\ Titles(Emitted[j].annotations)
                      = Titles(Val(records)[i].annotations)

\* the same for the document the forward conversion returned, never written
\* to a file and read back
C18_ReferencesOfEachRecordInMemory ==
    (RoundTrip /\ sbol3_file = None) =>
        \A i \in DOMAIN Val(records) :
            \E j \in DOMAIN Emitted :
                /\ Emitted[j].name = Val(records)[i].name
                /\ Titles(Emitted[j].annotations)
                      = Titles(Val(records)[i].annotations)

\* every record comes back with the references it had, in some order
C18_ReferencesOfEachRecordInSomeOrder ==
    RoundTrip =>
        \A i \in DOMAIN Val(records) :
            \E j \in DOMAIN Emitted :
                /\ Emitted[j].name = Val(records)[i].name
                /\ Len(Titles(Emitted[j].annotations))
                      = Len(Titles(Val(records)[i].annotations))
                /\ Range(Titles(Emitted[j].annotations))
                      = Range(Titles(Val(records)[i].annotations))

\* C19: a record a reverse conversion emits has a 'source' field exactly
\* when the source stored on its component is set and is not the empty
\* string.
C19_SourceOnlyWhenNonEmpty ==
    ReverseDone =>
        \A c \in DOMAIN Converted :
            Converted[c].kind = "Component" =>
                (HasKey(RecordOf(c).annotations, "source")
                    <=> /\ Converted[c].genbank_source # None
                        /\ Converted[c].genbank_source # Some(""))

\* the same for the components whose source was set, to the empty string or
\* to another
C19_SourceOnlyWhenNonEmptyOnceSet ==
    ReverseDone =>
        \A c \in DOMAIN Converted :
            (Converted[c].kind = "Component" /\ Converted[c].genbank_source # None) =>
                (HasKey(RecordOf(c).annotations, "source")
                    <=> Converted[c].genbank_source # Some(""))

\* a reverse conversion of a component whose stored source is the empty
\* string
C19_EmptySourceReached ==
    /\ ReverseDone
    /\ \E c \in DOMAIN Converted :
          Converted[c].kind = "Component" /\ Converted[c].genbank_source = Some("")

\* the components of the document in its iteration order
Components == SelectSeq(Converted, LAMBDA o : o.kind = "Component")

\* C20: a reverse conversion emits one record for every component of the
\* document, with or without a sequence, in the order of the document, and
\* no record for an object of another kind.
C20_OneRecordPerComponent ==
    ReverseDone =>
        /\ Len(Emitted) = Len(Components)
        /\ \A j \in DOMAIN Emitted :
              /\ Emitted[j].name = Components[j].display_id
              /\ Emitted[j].description = Components[j].description
              /\ Emitted[j].seq = None <=>
                    \/ Components[j].sequences = <<>>
                    \/ Find(Converted, Components[j].sequences[1]) = 0

\* a reverse conversion of a document with an attachment, a sequence, a
\* component with a sequence and, after it, a component with none
C20_Witness ==
    /\ ReverseDone
    /\ \E a \in DOMAIN Converted : Converted[a].kind = "Attachment"
    /\ \E a \in DOMAIN Converted : Converted[a].kind = "Sequence"
    /\ Len(Components) = 2
    /\ Components[1].sequences # <<>>
    /\ Components[2].sequences = <<>>

\* the (key, text) pairs the forward converter prefixes for a feature: each
\* key and the first entry of its value, in their order
PrefixedPairs(f) ==
    [i \in DOMAIN f.qualifiers |-> <<f.qualifiers[i][1], f.qualifiers[i][2][1]>>]

\* C21: after a round trip every feature comes back with the keys and the
\* texts that were prefixed, each exactly as it was, a text with a ':' in it
\* and the empty text included, and the key of index i paired with the text
\* of index i.
C21_PrefixStrippedExactly ==
    RoundTrip =>
        \A i \in DOMAIN Val(records) :
            \A f \in DOMAIN Val(records)[i].features :
                \E j \in DOMAIN Emitted :
                    /\ Emitted[j].name = Val(records)[i].name
                    /\ \E g \in DOMAIN Emitted[j].features :
                          Emitted[j].features[g].qualifiers
                              = PrefixedPairs(Val(records)[i].features[f])

\* a round trip of a feature with a key that has a ':' in it, a text that
\* has a ':' in it and an empty text
C21_Witness ==
    /\ RoundTrip
    /\ \E i \in DOMAIN Val(records) :
          \E f \in DOMAIN Val(records)[i].features :
              /\ \E a \in DOMAIN PrefixedPairs(Val(records)[i].features[f]) :
                    HasColon(PrefixedPairs(Val(records)[i].features[f])[a][1])
              /\ \E a \in DOMAIN PrefixedPairs(Val(records)[i].features[f]) :
                    HasColon(PrefixedPairs(Val(records)[i].features[f])[a][2])
              /\ \E a \in DOMAIN PrefixedPairs(Val(records)[i].features[f]) :
                    PrefixedPairs(Val(records)[i].features[f])[a][2] = <<>>

\* the text e occurs in the text s
Occurs(e, s) ==
    \E a \in 0..Len(s) : a + Len(e) <= Len(s) /\ SubSeq(s, a + 1, a + Len(e)) = e

\* the stored texts carry each of the indexes 0..n-1 once
IndexedOnce(stored, n) ==
    /\ Len(stored) = n
    /\ \A k \in 0..(n - 1) :
          Cardinality({a \in DOMAIN stored :
                          HasColon(stored[a]) /\ SplitHead(stored[a]) = FormatInt(k)})
              = 1

\* the stored value of index k
StoredValue(stored, k) ==
    stored[CHOOSE a \in DOMAIN stored :
               HasColon(stored[a]) /\ SplitHead(stored[a]) = FormatInt(k)]

\* C22: the forward converter stores, for a feature of n qualifiers, n keys
\* and n values that carry each index 0..n-1 once, the key of index k being
\* the k-th key, and the value of index k holding every entry of the k-th
\* value.
C22_EveryQualifierCopied ==
    ForwardOnly =>
        \A i \in DOMAIN Val(records) :
            \A f \in DOMAIN Val(records)[i].features :
                LET q == Val(records)[i].features[f].qualifiers
                    s == ComponentOf(Val(records)[i]).features[f]
                IN  /\ IndexedOnce(s.qualifier_key, Len(q))
                    /\ IndexedOnce(s.qualifier_value, Len(q))
                    /\ \A k \in DOMAIN q :
                          /\ SplitRest(StoredValue(s.qualifier_key, k - 1)) = q[k][1]
                          /\ \A e \in DOMAIN q[k][2] :
                                Occurs(q[k][2][e],
                                       SplitRest(StoredValue(s.qualifier_value,
                                                             k - 1)))

\* the same for the features whose qualifiers have one entry each
C22_EverySingleQualifierCopied ==
    ForwardOnly =>
        \A i \in DOMAIN Val(records) :
            \A f \in DOMAIN Val(records)[i].features :
                SingleValued(Val(records)[i].features[f]) =>
                    LET q == Val(records)[i].features[f].qualifiers
                        s == ComponentOf(Val(records)[i]).features[f]
                    IN  /\ IndexedOnce(s.qualifier_key, Len(q))
                        /\ IndexedOnce(s.qualifier_value, Len(q))
                        /\ \A k \in DOMAIN q :
                              /\ SplitRest(StoredValue(s.qualifier_key, k - 1))
                                    = q[k][1]
                              /\ SplitRest(StoredValue(s.qualifier_value, k - 1))
                                    = q[k][2][1]

\* C27: after a reverse conversion the status of a Sequence that is the one
\* sequence of a component and is found in the document is true, whether
\* the loop comes to the Sequence before or after the component that marks
\* it.
C27_StatusStaysTrue ==
    ReverseDone =>
        \A i \in DOMAIN Converted :
            (Converted[i].kind = "Sequence" /\ SequenceOfComponent(i)) =>
                /\ i \in DOMAIN Status
                /\ Status[i]

\* a reverse conversion of a document whose component comes before the
\* sequence it marks
C27_Witness ==
    /\ ReverseDone
    /\ \E c, i \in DOMAIN Converted :
          /\ c < i
          /\ Converted[c].kind = "Component"
          /\ Converted[i].kind = "Sequence"
          /\ Len(Converted[c].sequences) = 1
          /\ Find(Converted, Converted[c].sequences[1]) = i
          /\ Status[i]

\* a reverse conversion of a document whose sequence comes before the
\* component that marks it
C27_SequenceFirstReached ==
    /\ ReverseDone
    /\ \E c, i \in DOMAIN Converted :
          /\ i < c
          /\ Converted[c].kind = "Component"
          /\ Converted[i].kind = "Sequence"
          /\ Len(Converted[c].sequences) = 1
          /\ Find(Converted, Converted[c].sequences[1]) = i

\* C28: every metadata key of a record a reverse conversion emits is one of
\* the keys the forward converter accepts.
C28_EmittedKeysAreAccepted ==
    ReverseDone =>
        \A j \in DOMAIN Emitted :
            \A a \in DOMAIN Emitted[j].annotations :
                Emitted[j].annotations[a][1] \in KnownAnnotations

\* the same for every key but the one the sequence version stored on the
\* component is put under
C28_EmittedKeysButOneAreAccepted ==
    ReverseDone =>
        \A j \in DOMAIN Emitted :
            \A a \in DOMAIN Emitted[j].annotations :
                Emitted[j].annotations[a][1]
                    \in KnownAnnotations \cup {"sequnce_version"}

\* storing the metadata of an emitted record as the forward converter does
\* raises the error of an unknown field
C28_EmittedRecordIsRefused ==
    /\ ReverseDone
    /\ \E j \in DOMAIN Emitted :
          StoreAnnotations(NewComponent(TEST_NAMESPACE, Emitted[j].name, COMP_TYPES,
                                        COMP_ROLES, Emitted[j].description),
                           SeqA,
                           [a \in DOMAIN Emitted[j].annotations |->
                               IF Emitted[j].annotations[a][1] = "references"
                               THEN <<"references", <<>>>>
                               ELSE Emitted[j].annotations[a]],
                           <<>>).err
              = "ValueError: annotation"

\* C29: after a reverse conversion the strand of every emitted feature is
\* -1 when the orientation of its Feature is reverse and +1 when it is not,
\* whatever the orientations of its locations.
C29_StrandOfFeatureOrientation ==
    ReverseDone =>
        \A c \in DOMAIN Converted :
            Converted[c].kind = "Component" =>
                \A f \in DOMAIN SequenceFeatures(Converted[c]) :
                    \E g \in DOMAIN RecordOf(c).features :
                        /\ RecordOf(c).features[g]
                              = ReverseFeature(so2gb_map,
                                    SequenceFeatures(Converted[c])[f]).val
                        /\ RecordOf(c).features[g].strand
                              = IF SequenceFeatures(Converted[c])[f].orientation
                                      = Some(SO_REVERSE)
                                THEN Some(BIO_STRAND_REVERSE)
                                ELSE Some(BIO_STRAND_FORWARD)

\* the strand of every emitted feature is that of the orientation of the
\* last of its locations, +1 when it has none
C29_StrandOfLastLocation ==
    ReverseDone =>
        \A c \in DOMAIN Converted :
            Converted[c].kind = "Component" =>
                \A f \in DOMAIN SequenceFeatures(Converted[c]) :
                    \E g \in DOMAIN RecordOf(c).features :
                        /\ RecordOf(c).features[g]
                              = ReverseFeature(so2gb_map,
                                    SequenceFeatures(Converted[c])[f]).val
                        /\ RecordOf(c).features[g].strand
                              = LET l == SequenceFeatures(Converted[c])[f].locations
                                IN  IF l # <<>> /\ l[Len(l)].orientation
                                                     = Some(SO_REVERSE)
                                    THEN Some(BIO_STRAND_REVERSE)
                                    ELSE Some(BIO_STRAND_FORWARD)

\* the reference object at position i names no Component of the document
Unresolved(objects, i) ==
    /\ IsReference(objects[i])
    /\ LET c == Find(objects, StrOf(objects[i].component))
       IN  c = 0 \/ objects[c].kind # "Component"

\* the document without the object at position i
Without(objects, i) ==
    [j \in 1..(Len(objects) - 1) |-> IF j < i THEN objects[j] ELSE objects[j + 1]]

\* C30: a reference object that names no Component of the document is
\* skipped by the reverse conversion: the conversion fails or succeeds as it
\* does on the document without that object, and when it succeeds the
\* records are those of the document without it, the status of every other
\* object is its status in the document without it, and the status of the
\* reference object is false.
C30_UnresolvedReferenceSkipped ==
    rev # None =>
        \A u \in DOMAIN Converted :
            Unresolved(Converted, u) =>
                \E r \in {convert_sbol3_to_genbank(gb2so_map, so2gb_map,
                              gb2so_csv, so2gb_csv, Without(Converted, u),
                              Val(rev).write)} :
                    /\ Val(rev).err = r.err
                    /\ Val(rev).err = "" =>
                          /\ Emitted = Val(r.ret).seqrecords
                          /\ DOMAIN Status = DOMAIN Converted
                          /\ ~Status[u]
                          /\ \A i \in DOMAIN Converted :
                                /\ i < u => Status[i] = Val(r.ret).status[i]
                                /\ i > u => Status[i] = Val(r.ret).status[i - 1]

\* a successful reverse conversion that emitted the record of an extended
\* component from a document with a reference object of no Component
C30_Witness ==
    /\ ReverseDone
    /\ \E u \in DOMAIN Converted : Unresolved(Converted, u)
    /\ \E c \in DOMAIN Converted :
          /\ Converted[c].kind = "Component"
          /\ Converted[c].ext
          /\ Emitted # <<>>

\* the values the so2gb map has before and after the reverse converter ran
So2GbMaps == {EmptyMap} \cup {LoadSo2Gb(EmptyMap, Val(f)) : f \in So2GbFiles \ {None}}

\* the values the gb2so map has before and after the forward converter ran
Gb2SoMaps == {EmptyMap} \cup {LoadGb2So(EmptyMap, Val(f)) : f \in Gb2SoFiles \ {None}}

\* a step that is a call of convert_genbank_to_sbol3
ForwardStep == fwd = None /\ fwd' # None

\* a step that is a call of convert_sbol3_to_genbank
ReverseStep == rev = None /\ rev' # None

\* C23: a forward conversion leaves the so2gb map as it is and its outcome
\* (error, document, file) is the same whatever the reverse converter left
\* in the so2gb map; a reverse conversion leaves the gb2so map as it is and
\* its outcome (error, records, statuses, file) is the same whatever the
\* forward converter left in the gb2so map.
C23_ConvertersShareNoState ==
    [][/\ ForwardStep =>
             /\ so2gb_map' = so2gb_map
             /\ \A m \in So2GbMaps :
                   \E r \in {convert_genbank_to_sbol3(gb2so_map, m, gb2so_csv,
                                 so2gb_csv, Val(records'), TEST_NAMESPACE,
                                 Val(fwd').write)} :
                       /\ r.err = Val(fwd').err
                       /\ r.doc = doc'
                       /\ r.file = sbol3_file'
                       /\ r.gb2so = gb2so_map'
       /\ ReverseStep =>
             /\ gb2so_map' = gb2so_map
             /\ \A m \in Gb2SoMaps :
                   \E r \in {convert_sbol3_to_genbank(m, so2gb_map, gb2so_csv,
                                 so2gb_csv, Val(doc'), Val(rev').write)} :
                       /\ r.err = Val(rev').err
                       /\ r.ret = Val(rev').ret
                       /\ r.file = Val(rev').file
                       /\ r.so2gb = so2gb_map']_vars

\* a forward conversion that mapped a feature type to its term after a
\* reverse conversion had loaded the so2gb map, and a reverse conversion
\* that mapped a role to its type after a forward conversion had loaded the
\* gb2so map
C23_Witness ==
    /\ RoundTrip
    /\ so2gb_map # EmptyMap
    /\ gb2so_map # EmptyMap
    /\ \E c \in DOMAIN Converted :
          /\ Converted[c].kind = "Component"
          /\ \E f \in DOMAIN Converted[c].features :
                Converted[c].features[f].roles = <<PromoterRole>>
    /\ \E e \in DOMAIN Emitted :
          \E g \in DOMAIN Emitted[e].features :
              Emitted[e].features[g].type = "promoter"

\* C24: once a map has entries no later step (a conversion with its lookups
\* and fallbacks, or a load) changes its entries.
C24_TableUnchangedOnceLoaded ==
    [][/\ gb2so_map # EmptyMap => gb2so_map' = gb2so_map
       /\ so2gb_map # EmptyMap => so2gb_map' = so2gb_map]_vars

\* a step changes a map only by the rows of a table loaded in that step:
\* a lookup or a fallback on a miss adds no entry, and a load of the table
\* whose rows the map already has changes nothing
C24_OnlyLoadsChangeTables ==
    [][/\ gb2so_map' \in {gb2so_map} \cup
              {LoadGb2So(gb2so_map, rows) : rows \in {Gb2SoRows, OtherGb2SoRows}}
       /\ so2gb_map' \in {so2gb_map} \cup
              {LoadSo2Gb(so2gb_map, rows) : rows \in {So2GbRows, OtherSo2GbRows}}
       /\ gb2so_map = LoadGb2So(EmptyMap, Gb2SoRows) /\ mapped' = None
              => gb2so_map' = gb2so_map
       /\ so2gb_map = LoadSo2Gb(EmptyMap, So2GbRows) /\ mapped' = None
              => so2gb_map' = so2gb_map]_vars

\* the rows of a so2gb table are entries of the so2gb map
So2GbPopulated(rows) ==
    \A i \in DOMAIN rows :
        /\ rows[i].SO_Ontology \in DOMAIN so2gb_map
        /\ so2gb_map[rows[i].SO_Ontology] = rows[i].GenBank_Ontology

\* the rows of a gb2so table are entries of the gb2so map
Gb2SoPopulated(rows) ==
    \A i \in DOMAIN rows :
        /\ rows[i].GenBank_Ontology \in DOMAIN gb2so_map
        /\ gb2so_map[rows[i].GenBank_Ontology] = rows[i].SO_Ontology

\* a caller has just called create_GB_SO_role_mappings for both directions
BothRequested ==
    /\ mapped # None
    /\ Val(mapped).convert_gb2so
    /\ Val(mapped).convert_so2gb
    /\ fwd = None
    /\ rev = None

\* C25: after a call of create_GB_SO_role_mappings for both directions, the
\* so2gb map has the rows of its file when that file exists although the
\* gb2so file is missing, and the gb2so map has the rows of its file when
\* that file exists although the so2gb file is missing.
C25_EachDirectionLoadedAlone ==
    BothRequested =>
        /\ (Val(mapped).gb2so_csv = None /\ Val(mapped).so2gb_csv # None)
              => So2GbPopulated(Val(Val(mapped).so2gb_csv))
        /\ (Val(mapped).so2gb_csv = None /\ Val(mapped).gb2so_csv # None)
              => Gb2SoPopulated(Val(Val(mapped).gb2so_csv))

\* the half that holds: the gb2so map has the rows of its file when the
\* so2gb file is missing
C25_Gb2SoLoadedWithoutSo2Gb ==
    (/\ BothRequested
     /\ Val(mapped).so2gb_csv = None
     /\ Val(mapped).gb2so_csv # None)
        => /\ Gb2SoPopulated(Val(Val(mapped).gb2so_csv))
           /\ Val(mapped).ret = 0

\* a call for both directions with the so2gb file missing and the gb2so
\* file present
C25_Gb2SoAloneReached ==
    /\ BothRequested
    /\ Val(mapped).so2gb_csv = None
    /\ Val(mapped).gb2so_csv # None

\* the last call of create_GB_SO_role_mappings loaded a gb2so table on the
\* instance `other`, and the converter then converted records without error
LoadedByOther ==
    /\ mapped # None
    /\ Val(mapped).self = "other"
    /\ Val(mapped).convert_gb2so
    /\ Val(mapped).gb2so_csv # None
    /\ records # None
    /\ ForwardDone
    /\ rev = None

\* every feature whose type has a row in the table rows has the term of that
\* row as its role
RolesOfRows(rows) ==
    \A i \in DOMAIN Val(records) :
        \A f \in DOMAIN Val(records)[i].features :
            \A k \in DOMAIN rows :
                rows[k].GenBank_Ontology = Val(records)[i].features[f].type =>
                    \E c \in DOMAIN Converted :
                        /\ Converted[c].kind = "Component"
                        /\ Converted[c].display_id = Val(records)[i].name
                        /\ Converted[c].features[f].roles
                              = <<DropLast(SO_NS, 3) \o rows[k].SO_Ontology>>

\* an entry loaded on one instance is the entry a conversion on another
\* instance looks up
UsedByOthers == LoadedByOther => RolesOfRows(Val(Val(mapped).gb2so_csv))

\* no step removes a term from a map
TermsKept ==
    /\ DOMAIN gb2so_map \subseteq DOMAIN gb2so_map'
    /\ DOMAIN so2gb_map \subseteq DOMAIN so2gb_map'

\* no step removes an entry, a term with what it maps to, from a map
EntriesKept ==
    /\ TermsKept
    /\ \A k \in DOMAIN gb2so_map : gb2so_map'[k] = gb2so_map[k]
    /\ \A k \in DOMAIN so2gb_map : so2gb_map'[k] = so2gb_map[k]

KeptOrReplaced ==
    /\ TermsKept
    /\ \A k \in DOMAIN gb2so_map :
          \/ gb2so_map'[k] = gb2so_map[k]
          \/ \E rows \in {Gb2SoRows, OtherGb2SoRows} :
                \E i \in DOMAIN rows :
                    /\ rows[i].GenBank_Ontology = k
                    /\ rows[i].SO_Ontology = gb2so_map'[k]
    /\ \A k \in DOMAIN so2gb_map :
          \/ so2gb_map'[k] = so2gb_map[k]
          \/ \E rows \in {So2GbRows, OtherSo2GbRows} :
                \E i \in DOMAIN rows :
                    /\ rows[i].SO_Ontology = k
                    /\ rows[i].GenBank_Ontology = so2gb_map'[k]

\* the rows of a table for the types gb2so.csv has no row for
RowsNotInDefault(rows) ==
    SelectSeq(rows, LAMBDA r : \A k \in DOMAIN Gb2SoRows :
                                  Gb2SoRows[k].GenBank_Ontology # r.GenBank_Ontology)

====
